---------------------------- MODULE Spec2Model ----------------------------
(***************************************************************************)
(* Code Lantern, backend/core/analyzer.py: the architecture analyzer.      *)
(*                                                                         *)
(* The model follows analyze_repo_detailed: the repository walk            *)
(* (find_source_files), the per-file analysis (analyze_file_detailed with  *)
(* the function, complexity and call extractors) and the graph builder     *)
(* (name index, cross-file edges).  The syntax tree of a file is what      *)
(* tree-sitter hands to the extractors: a node has a type, its children    *)
(* and, for a token, its text.  In the tree model sources are taken to be  *)
(* ASCII, so byte offsets and character offsets agree and get_node_text of *)
(* a token is the token; SpecText models the text of a file with its byte  *)
(* and character offsets apart.  The module also holds the /api/analyze    *)
(* and /api/files routes of routes/analysis.py with the upload directory   *)
(* of routes/upload.py, services/rate_limiter.py, the provider fallback of *)
(* services/llm_provider.py and the sessions of routes/github.py.          *)
(***************************************************************************)
EXTENDS Integers, Sequences, FiniteSets, TLC

VARIABLES
    fs,              \* the directory tree rooted at repo_path (the input)
    pc,              \* position in analyze_repo_detailed
    file_paths,      \* find_source_files' result: paths as component sequences
    idx,             \* index of the next file of the analysis loop
    analyzed_files,  \* FileRecords appended so far
    all_functions,   \* the name index: bare name -> filePath
    edges,           \* CallEdges
    result,          \* the returned architecture map, <<>> before the return
    ret,             \* what the last direct call of a function of the module
                     \* returned, <<>> before any
    parser,          \* the module's one Parser: the grammar it is set to
    workers,         \* the threads that run a per-file function at the same
                     \* time: for each its position and its locals
    source,          \* a source text with the place of one definition node,
                     \* for the functions that work on text; <<>> if none
    usage,           \* RateLimiter._function_detail_usage: (ip, repo) -> count
    requests,        \* the function-detail requests in flight: for each its
                     \* key, its position and what its check returned
    llm,             \* generate_with_fallback: the environment's API keys,
                     \* the position and locals of the call, the provider
                     \* calls made so far; <<>> if none
    store,           \* the upload directory of the routes; <<>> if none
    github,          \* routes/github.py: the sessions and the requests in
                     \* flight; <<>> if none
    walk             \* the loop over os.walk of find_source_files, one
                     \* directory at a time; <<>> if none

\* the state of analyze_repo_detailed
pipeline == <<fs, pc, file_paths, idx, analyzed_files, all_functions, edges,
              result>>

\* the state outside analyze_repo_detailed
limiter == <<usage, requests>>
services == <<llm, store, github, walk>>
outside == <<ret, parser, workers, source, limiter, services>>

vars == <<fs, pc, file_paths, idx, analyzed_files, all_functions, edges, result,
          outside>>

-----------------------------------------------------------------------------
(* Strings and paths                                                        *)

Max(S) == CHOOSE x \in S : \A y \in S : y <= x

Range(f) == {f[i] : i \in DOMAIN f}

\* str.startswith(prefix) for a one-character prefix
StartsWith(s, c) == Len(s) >= 1 /\ SubSeq(s, 1, 1) = c

UpperToLower ==
    [A |-> "a", B |-> "b", C |-> "c", D |-> "d", E |-> "e", F |-> "f",
     G |-> "g", H |-> "h", I |-> "i", J |-> "j", K |-> "k", L |-> "l",
     M |-> "m", N |-> "n", O |-> "o", P |-> "p", Q |-> "q", R |-> "r",
     S |-> "s", T |-> "t", U |-> "u", V |-> "v", W |-> "w", X |-> "x",
     Y |-> "y", Z |-> "z"]

LowerChar(c) == IF c \in DOMAIN UpperToLower THEN UpperToLower[c] ELSE c

RECURSIVE Lower(_)
Lower(s) == IF Len(s) = 0 THEN ""
            ELSE LowerChar(SubSeq(s, 1, 1)) \o Lower(SubSeq(s, 2, Len(s)))

\* os.path.splitext(name)[1]: from the last dot, unless every character
\* before that dot is a dot too (a leading dot starts no extension).
SplitExt(name) ==
    LET dots == {i \in 1..Len(name) : SubSeq(name, i, i) = "."}
    IN  IF dots = {} THEN ""
        ELSE LET last == Max(dots)
             IN  IF \A i \in 1..(last - 1) : SubSeq(name, i, i) = "."
                 THEN ""
                 ELSE SubSeq(name, last, Len(name))

\* os.path.join over path components, as text
RECURSIVE JoinPath(_)
JoinPath(comps) ==
    IF Len(comps) = 0 THEN ""
    ELSE IF Len(comps) = 1 THEN comps[1]
    ELSE comps[1] \o "/" \o JoinPath(Tail(comps))

\* os.path.relpath(path, base_path) for a path below base_path
RelPath(path, base) == JoinPath(SubSeq(path, Len(base) + 1, Len(path)))

-----------------------------------------------------------------------------
(* Tables of the analyzer                                                   *)

IGNORED_DIRECTORIES ==
    {".git", ".svn", ".hg",
     "node_modules", "bower_components", ".npm", ".yarn",
     "venv", ".venv", "env", ".env", "virtualenv",
     "__pycache__", ".pytest_cache", ".mypy_cache", ".ruff_cache",
     "site-packages", ".eggs",
     "dist", "build", "out", "output", "target", "bin", "obj",
     ".next", ".nuxt", ".output", ".cache", ".parcel-cache",
     ".vscode", ".idea", ".vs", ".eclipse",
     "vendor", "packages", "libs", "lib", "third_party", "external",
     "coverage", ".coverage", "htmlcov", ".tox",
     "tmp", "temp", "logs",
     "assets", "static", "public", "media", "uploads"}

SUPPORTED_EXTENSIONS ==
    [x \in {".py", ".js", ".ts", ".tsx", ".jsx", ".java", ".cpp", ".cc",
            ".cxx", ".h", ".hpp", ".rs"} |->
        CASE x = ".py" -> "python"
          [] x \in {".js", ".jsx"} -> "javascript"
          [] x \in {".ts", ".tsx"} -> "typescript"
          [] x = ".java" -> "java"
          [] x = ".rs" -> "rust"
          [] OTHER -> "cpp"]

COMPLEXITY_NODE_TYPES ==
    {"if_statement", "elif_clause", "for_statement", "while_statement",
     "try_statement", "except_clause", "with_statement",
     "conditional_expression", "boolean_operator",
     "list_comprehension", "dictionary_comprehension", "set_comprehension",
     "generator_expression",
     "for_in_statement", "do_statement", "switch_case", "catch_clause",
     "ternary_expression", "binary_expression",
     "enhanced_for_statement", "switch_expression",
     "case_statement",
     "if_expression", "for_expression", "while_expression",
     "loop_expression", "match_arm"}

\* the tokens calculate_complexity looks for under a binary_expression
LOGICAL_TOKENS == {"&&", "||", "and", "or"}

builtins ==
    {"print", "len", "str", "int", "float", "list", "dict", "set", "tuple",
     "range", "open", "type", "isinstance", "hasattr", "getattr", "setattr",
     "super", "map", "filter", "zip", "enumerate", "sorted", "reversed",
     "min", "max", "sum", "abs", "round", "format", "input", "bool", "bytes",
     "console", "require", "import", "export", "setTimeout", "setInterval",
     "clearTimeout", "clearInterval", "fetch", "Promise", "Array", "Object",
     "String", "Number", "Boolean", "JSON", "Math", "Date", "RegExp", "Error",
     "System", "println", "new", "toString", "equals", "hashCode",
     "std", "cout", "cin", "printf", "scanf", "sizeof", "malloc", "free",
     "vec", "Some", "None", "Ok", "Err", "Box", "Rc", "Arc",
     "if", "for", "while", "switch", "catch", "match"}

function_types ==
    [py |-> {"function_definition"},
     js |-> {"function_declaration", "arrow_function", "function_expression",
             "method_definition"},
     java |-> {"method_declaration", "constructor_declaration"},
     cpp |-> {"function_definition"},
     rust |-> {"function_item"}]

detect_language(name) ==
    LET ext == Lower(SplitExt(name))
    IN  CASE ext \in {".js", ".jsx", ".ts", ".tsx"} -> "js"
          [] ext \in {".py"} -> "py"
          [] ext \in {".java"} -> "java"
          [] ext \in {".cpp", ".cc", ".cxx", ".h", ".hpp"} -> "cpp"
          [] ext \in {".rs"} -> "rust"
          [] OTHER -> "none"

-----------------------------------------------------------------------------
(* Syntax trees                                                             *)

Leaf(type, text) == [type |-> type, text |-> text, children |-> <<>>]
Node(type, children) == [type |-> type, text |-> "", children |-> children]

\* get_node_text: the source text the node spans (tokens, blanks left out)
RECURSIVE get_node_text(_)
RECURSIVE ConcatText(_)
ConcatText(ns) ==
    IF Len(ns) = 0 THEN "" ELSE get_node_text(ns[1]) \o ConcatText(Tail(ns))
get_node_text(n) ==
    IF Len(n.children) = 0 THEN n.text ELSE ConcatText(n.children)


\* a node and its descendants, in pre-order
RECURSIVE PreOrder(_)
RECURSIVE PreOrderAll(_)
PreOrderAll(ns) ==
    IF Len(ns) = 0 THEN <<>> ELSE PreOrder(ns[1]) \o PreOrderAll(Tail(ns))
PreOrder(n) == <<n>> \o PreOrderAll(n.children)

-----------------------------------------------------------------------------
(* Cyclomatic complexity                                                    *)

\* the loop over a binary_expression's children: 1 at the first child whose
\* type or text is a logical token (the loop breaks there), 0 if none is
RECURSIVE BinaryScan(_, _)
BinaryScan(children, i) ==
    IF i > Len(children) THEN 0
    ELSE IF children[i].type \in LOGICAL_TOKENS THEN 1
    ELSE IF get_node_text(children[i]) \in LOGICAL_TOKENS THEN 1
    ELSE BinaryScan(children, i + 1)

\* what one visit of walk adds to the counter
NodeIncrement(n) ==
    IF n.type \in COMPLEXITY_NODE_TYPES
    THEN IF n.type = "binary_expression" THEN BinaryScan(n.children, 1)
         ELSE 1
    ELSE 0

\* a walk that does not enter the function definitions nested in the function
RECURSIVE ComplexityWalkSkipNested(_)
RECURSIVE ComplexityWalkSkipNestedAll(_)
ComplexityWalkSkipNestedAll(ns) ==
    IF Len(ns) = 0 THEN 0
    ELSE (IF \E l \in DOMAIN function_types : ns[1].type \in function_types[l]
          THEN 0 ELSE ComplexityWalkSkipNested(ns[1]))
         + ComplexityWalkSkipNestedAll(Tail(ns))
ComplexityWalkSkipNested(n) ==
    NodeIncrement(n) + ComplexityWalkSkipNestedAll(n.children)

\* walk(n): the visit of n, then walk of each child
RECURSIVE ComplexityWalk(_)
RECURSIVE ComplexityWalkAll(_)
ComplexityWalkAll(ns) ==
    IF Len(ns) = 0 THEN 0
    ELSE ComplexityWalk(ns[1]) + ComplexityWalkAll(Tail(ns))
ComplexityWalk(n) ==
    NodeIncrement(n) + ComplexityWalkAll(n.children)

\* a count without the base complexity
calculate_complexityFromZero(node) == ComplexityWalk(node)

calculate_complexity(node) == 1 + ComplexityWalk(node)

-----------------------------------------------------------------------------
(* Function details                                                         *)

\* "for child in children: if child.type == t: name = text": the last wins
LastChildText(children, t) ==
    LET ks == {k \in 1..Len(children) : children[k].type = t}
    IN  IF ks = {} THEN "" ELSE get_node_text(children[Max(ks)])

\* the name extract_function_details recovers, "" if none
FuncName(node, lang) ==
    IF lang = "cpp"
    THEN LET ds == {k \in 1..Len(node.children) :
                       /\ node.children[k].type = "function_declarator"
                       /\ \E j \in 1..Len(node.children[k].children) :
                             node.children[k].children[j].type = "identifier"}
         IN  IF ds = {} THEN ""
             ELSE LastChildText(node.children[Max(ds)].children, "identifier")
    ELSE LastChildText(node.children, "identifier")

\* str.find: the first place of ch in text at or after k, 0 if none
RECURSIVE Find(_, _, _)
Find(text, ch, k) ==
    IF k > Len(text) THEN 0
    ELSE IF SubSeq(text, k, k) = ch THEN k
    ELSE Find(text, ch, k + 1)

Contains(text, ch) == Find(text, ch, 1) > 0

\* text.split(ch)[0] and what follows the first ch
FirstPiece(text, ch) ==
    IF Contains(text, ch) THEN SubSeq(text, 1, Find(text, ch, 1) - 1) ELSE text
AfterFirst(text, ch) == SubSeq(text, Find(text, ch, 1) + 1, Len(text))

\* str.strip() of blanks
RECURSIVE Strip(_)
Strip(text) ==
    IF Len(text) = 0 THEN text
    ELSE IF SubSeq(text, 1, 1) = " " THEN Strip(SubSeq(text, 2, Len(text)))
    ELSE IF SubSeq(text, Len(text), Len(text)) = " "
         THEN Strip(SubSeq(text, 1, Len(text) - 1))
    ELSE text

\* the clean-up of the text of a Python parameter
PyParameter(param_text) ==
    IF Contains(param_text, ":")
    THEN LET param_name == Strip(FirstPiece(param_text, ":"))
             param_type ==
                 Strip(FirstPiece(Strip(FirstPiece(AfterFirst(param_text, ":"), ":")),
                                  "="))
         IN  param_name \o ": " \o param_type
    ELSE IF Contains(param_text, "=")
    THEN Strip(FirstPiece(param_text, "=")) \o "=..."
    ELSE param_text

\* the type of the child that holds the parameters, and the types of the
\* children of it that extract_function_details takes
ParameterListType ==
    [py |-> "parameters", js |-> "formal_parameters", java |-> "formal_parameters",
     cpp |-> "parameter_list", rust |-> "parameters"]
ParameterTypes ==
    [py |-> {"identifier", "typed_parameter", "default_parameter"},
     js |-> {"identifier", "assignment_pattern", "rest_pattern"},
     java |-> {"formal_parameter"},
     cpp |-> {"parameter_declaration"},
     rust |-> {"parameter"}]

\* "for param in child.children": the entries one parameter list gives
ParametersOfList(list, lang) ==
    LET taken == SelectSeq(list.children, LAMBDA p : p.type \in ParameterTypes[lang])
    IN  [k \in 1..Len(taken) |->
            IF lang = "py" THEN PyParameter(get_node_text(taken[k]))
            ELSE get_node_text(taken[k])]

\* the children among which the parameter list is looked for: those of the
\* definition, in C++ those of its function_declarator children
RECURSIVE ChildrenOfAll(_)
ChildrenOfAll(ns) ==
    IF Len(ns) = 0 THEN <<>> ELSE ns[1].children \o ChildrenOfAll(Tail(ns))
ParameterHolders(node, lang) ==
    IF lang = "cpp"
    THEN ChildrenOfAll(SelectSeq(node.children,
                                 LAMBDA c : c.type = "function_declarator"))
    ELSE node.children

\* the parameters extract_function_details recovers
RECURSIVE ParametersOfLists(_, _)
ParametersOfLists(lists, lang) ==
    IF Len(lists) = 0 THEN <<>>
    ELSE ParametersOfList(lists[1], lang) \o ParametersOfLists(Tail(lists), lang)
Parameters(node, lang) ==
    ParametersOfLists(SelectSeq(ParameterHolders(node, lang),
                                LAMBDA c : c.type = ParameterListType[lang]),
                      lang)

extract_function_details(node, lang, file_path) ==
    LET func_name == FuncName(node, lang)
    IN  [functionName |-> file_path \o "-" \o func_name,
         name |-> func_name,
         parameters |-> Parameters(node, lang),
         complexity |-> calculate_complexity(node),
         code |-> get_node_text(node),
         calls |-> <<>>]

-----------------------------------------------------------------------------
(* Function calls                                                           *)

\* one visit that leaves exclude_names out of account
CallNamesOfNoExclude(n, exclude_names) ==
    IF n.type \in {"call_expression", "call"} /\ Len(n.children) > 0
          /\ n.children[1].type = "identifier"
    THEN {get_node_text(n.children[1])} \ builtins
    ELSE {}

\* the names one visit of extract_function_calls.walk adds to calls
CallNamesOf(n, exclude_names) ==
    IF n.type = "call_expression" /\ Len(n.children) > 0
    THEN LET func_node == n.children[1]
         IN  IF func_node.type = "identifier"
             THEN {get_node_text(func_node)} \ (builtins \cup exclude_names)
             ELSE IF func_node.type = "member_expression"
             THEN {get_node_text(func_node.children[k]) :
                      k \in {j \in 1..Len(func_node.children) :
                                func_node.children[j].type = "property_identifier"}}
                  \ builtins
             ELSE {}
    ELSE IF n.type = "call" /\ Len(n.children) > 0
    THEN LET func_node == n.children[1]
         IN  IF func_node.type = "identifier"
             THEN {get_node_text(func_node)} \ (builtins \cup exclude_names)
             ELSE IF func_node.type = "attribute"
             THEN \* the loop breaks at the first identifier child that is
                  \* no builtin
                  LET ks == {k \in 1..Len(func_node.children) :
                                /\ func_node.children[k].type = "identifier"
                                /\ get_node_text(func_node.children[k]) \notin builtins}
                  IN  IF ks = {} THEN {}
                      ELSE {get_node_text(func_node.children[
                               CHOOSE k \in ks : \A j \in ks : k <= j])}
             ELSE {}
    ELSE {}

RECURSIVE CallsWalk(_, _)
RECURSIVE CallsWalkAll(_, _)
CallsWalkAll(ns, exclude_names) ==
    IF Len(ns) = 0 THEN {}
    ELSE CallsWalk(ns[1], exclude_names) \cup CallsWalkAll(Tail(ns), exclude_names)
CallsWalk(n, exclude_names) ==
    CallNamesOf(n, exclude_names) \cup CallsWalkAll(n.children, exclude_names)

\* the enumerations of a set: list(calls) iterates the set in hash order,
\* which differs from process to process
ListsOf(S) ==
    {f \in [1..Cardinality(S) -> S] :
        \A i, j \in 1..Cardinality(S) : i # j => f[i] # f[j]}

\* list(calls) under the hash order ord, an enumeration of the names
ListInOrder(S, ord) ==
    LET pos(x) == CHOOSE i \in 1..Len(ord) : ord[i] = x
        RECURSIVE Sorted(_)
        Sorted(T) ==
            IF T = {} THEN <<>>
            ELSE LET m == CHOOSE x \in T : \A y \in T : pos(x) <= pos(y)
                 IN  <<m>> \o Sorted(T \ {m})
    IN  Sorted(S)

\* calls kept as a list, one entry for each call found
RECURSIVE CallsWalkList(_, _, _)
RECURSIVE CallsWalkListAll(_, _, _)
CallsWalkListAll(ns, exclude_names, ord) ==
    IF Len(ns) = 0 THEN <<>>
    ELSE CallsWalkList(ns[1], exclude_names, ord)
         \o CallsWalkListAll(Tail(ns), exclude_names, ord)
CallsWalkList(n, exclude_names, ord) ==
    ListInOrder(CallNamesOf(n, exclude_names), ord)
    \o CallsWalkListAll(n.children, exclude_names, ord)

extract_function_calls(node, exclude_names, ord) ==
    ListInOrder(CallsWalk(node, exclude_names), ord)

-----------------------------------------------------------------------------
(* Imports                                                                  *)

\* code[a+1 : b-1]: a string without its quotes
Unquote(text) == SubSeq(text, 2, Len(text) - 1)

\* str.strip('"<>')
RECURSIVE StripHeader(_)
StripHeader(text) ==
    LET drop == {"\"", "<", ">"}
    IN  IF Len(text) = 0 THEN text
        ELSE IF SubSeq(text, 1, 1) \in drop THEN StripHeader(SubSeq(text, 2, Len(text)))
        ELSE IF SubSeq(text, Len(text), Len(text)) \in drop
             THEN StripHeader(SubSeq(text, 1, Len(text) - 1))
        ELSE text

\* the texts of the children of node whose type is in types
ChildTexts(node, types) ==
    LET kept == SelectSeq(node.children, LAMBDA c : c.type \in types)
    IN  [k \in 1..Len(kept) |-> get_node_text(kept[k])]

\* what the walk of an import extractor appends at one node
ImportsAt(lang, node) ==
    CASE lang = "js" ->
           (IF node.type = "import_statement"
            THEN LET strs == ChildTexts(node, {"string"})
                 IN  [k \in 1..Len(strs) |-> Unquote(strs[k])]
            ELSE <<>>)
           \o
           (IF /\ node.type = "call_expression"
               /\ Len(node.children) >= 2
               /\ node.children[1].type = "identifier"
               /\ get_node_text(node.children[1]) = "require"
               /\ node.children[2].type = "arguments"
               /\ Len(node.children[2].children) >= 2
               /\ node.children[2].children[2].type = "string"
            THEN <<Unquote(get_node_text(node.children[2].children[2]))>>
            ELSE <<>>)
      [] lang = "py" ->
           (IF node.type = "import_statement"
            THEN ChildTexts(node, {"dotted_name", "identifier"}) ELSE <<>>)
           \o
           (IF node.type = "import_from_statement" /\ Len(node.children) > 1
            THEN <<get_node_text(node.children[2])>> ELSE <<>>)
      [] lang = "java" ->
           IF node.type = "import_declaration"
           THEN ChildTexts(node, {"scoped_identifier", "identifier"}) ELSE <<>>
      [] lang = "cpp" ->
           IF node.type = "preproc_include"
           THEN LET hs == ChildTexts(node, {"string_literal", "system_lib_string"})
                IN  [k \in 1..Len(hs) |-> StripHeader(hs[k])]
           ELSE <<>>
      [] lang = "rust" ->
           IF node.type = "use_declaration"
           THEN ChildTexts(node, {"scoped_identifier", "identifier", "use_list"})
           ELSE <<>>
      [] OTHER -> <<>>

\* extract_js_imports, extract_py_imports, extract_java_imports,
\* extract_cpp_imports, extract_rust_imports: walk(tree.root_node), as
\* analyze_file_detailed chooses among them by lang
extract_imports(tree, lang) ==
    LET nodes == PreOrder(tree)
        RECURSIVE Each(_)
        Each(k) == IF k > Len(nodes) THEN <<>>
                   ELSE ImportsAt(lang, nodes[k]) \o Each(k + 1)
    IN  Each(1)

-----------------------------------------------------------------------------
(* Functions of a file                                                      *)

\* a walk that appends the record of every definition node, named or not
RECURSIVE FunctionsWalkKeepNameless(_, _, _, _)
RECURSIVE FunctionsWalkKeepNamelessAll(_, _, _, _)
FunctionsWalkKeepNamelessAll(ns, lang, file_path, ord) ==
    IF Len(ns) = 0 THEN <<>>
    ELSE FunctionsWalkKeepNameless(ns[1], lang, file_path, ord)
         \o FunctionsWalkKeepNamelessAll(Tail(ns), lang, file_path, ord)
FunctionsWalkKeepNameless(node, lang, file_path, ord) ==
    LET func_details == extract_function_details(node, lang, file_path)
        here == IF node.type \in function_types[lang]
                THEN <<[func_details EXCEPT !.calls =
                          extract_function_calls(node, {func_details.name}, ord)]>>
                ELSE <<>>
    IN  here \o FunctionsWalkKeepNamelessAll(node.children, lang, file_path, ord)

\* extract_functions_detailed.walk: a record for a definition node with a
\* name, then the walk of the children
RECURSIVE FunctionsWalk(_, _, _, _)
RECURSIVE FunctionsWalkAll(_, _, _, _)
FunctionsWalkAll(ns, lang, file_path, ord) ==
    IF Len(ns) = 0 THEN <<>>
    ELSE FunctionsWalk(ns[1], lang, file_path, ord)
         \o FunctionsWalkAll(Tail(ns), lang, file_path, ord)
FunctionsWalk(node, lang, file_path, ord) ==
    LET func_details == extract_function_details(node, lang, file_path)
        here == IF node.type \in function_types[lang] /\ func_details.name # ""
                THEN <<[func_details EXCEPT !.calls =
                          extract_function_calls(node, {func_details.name}, ord)]>>
                ELSE <<>>
    IN  here \o FunctionsWalkAll(node.children, lang, file_path, ord)

extract_functions_detailed(tree, lang, file_path, ord) ==
    FunctionsWalk(tree, lang, file_path, ord)


-----------------------------------------------------------------------------
(* The file system and the analysis of one file                             *)

\* A directory entry: a directory with its entries in listing order, or a
\* file with what read_file and the parser give for it.
\* The bytes of a file are one of: "empty"; "blank", white space only;
\* "text", valid UTF-8 with more than white space; "invalid", only bytes that
\* are no UTF-8; "blank+invalid" and "text+invalid", such bytes among white
\* space or text.  tree is the parse of the text left when the invalid bytes
\* are dropped.
Dir(name, entries) ==
    [name |-> name, kind |-> "dir", entries |-> entries,
     readable |-> TRUE, raw |-> "empty", tree |-> Leaf("", "")]
RawFile(name, readable, raw, tree) ==
    [name |-> name, kind |-> "file", entries |-> <<>>,
     readable |-> readable, raw |-> raw, tree |-> tree]
File(name, blank, tree) ==
    RawFile(name, TRUE, IF blank THEN "blank" ELSE "text", tree)

\* a symbolic link: target is the path of what it points to, todir says
\* whether that is a directory (os.path.isdir follows the link)
Link(name, target, todir) ==
    [name |-> name, kind |-> "link", entries |-> <<>>,
     readable |-> TRUE, raw |-> "text", tree |-> Leaf("", ""),
     target |-> target, todir |-> todir]

\* bytes.decode("utf-8", errors="ignore"): the invalid bytes are dropped
DecodeIgnore(raw) ==
    CASE raw = "invalid" -> "empty"
      [] raw = "blank+invalid" -> "blank"
      [] raw = "text+invalid" -> "text"
      [] OTHER -> raw

\* a read that lets the failure of open() pass to its caller
read_fileUnguarded(f) == IF f.readable THEN DecodeIgnore(f.raw) ELSE "raise"

\* read_file: the decoded content, "" when open() or read() fails
read_file(f) == IF f.readable THEN DecodeIgnore(f.raw) ELSE "empty"

\* "not code.strip()"
StripsToEmpty(code) == code \in {"empty", "blank"}

\* get_language_for_parser: the grammar of a language tag, "none" for a tag
\* without a capsule
lang_capsules == {"js", "py", "java", "cpp", "rust"}
get_language_for_parser(lang) == IF lang \in lang_capsules THEN lang ELSE "none"

\* the entry a path names, the path starting with the name of d
RECURSIVE Lookup(_, _)
Lookup(d, path) ==
    IF Len(path) = 1 THEN d
    ELSE LET k == CHOOSE k \in 1..Len(d.entries) : d.entries[k].name = path[2]
         IN  Lookup(d.entries[k], Tail(path))

\* every file of the tree below d, with its path
RECURSIVE AllFilesBelow(_, _)
RECURSIVE AllFilesBelowAll(_, _)
AllFilesBelowAll(es, path) ==
    IF Len(es) = 0 THEN <<>>
    ELSE AllFilesBelow(es[1], Append(path, es[1].name))
         \o AllFilesBelowAll(Tail(es), path)
AllFilesBelow(d, path) ==
    IF d.kind = "file" THEN <<[path |-> path, file |-> d]>>
    ELSE AllFilesBelowAll(d.entries, path)

\* does the call leave analyze_file_detailed by an exception: the only
\* statement of it that can fail on a file of the tree is the read
analyze_file_detailedRaises(root, path) ==
    /\ detect_language(path[Len(path)]) # "none"
    /\ read_file(Lookup(root, path)) = "raise"

\* analyze_file_detailed, when it returns: <<>> for None, else the
\* FileRecord in a 1-tuple
analyze_file_detailed(root, path, base_path, ord) ==
    LET fname == path[Len(path)]
        lang == detect_language(fname)
        f == Lookup(root, path)
        code == read_file(f)
        rel_path == IF Len(base_path) > 0 THEN RelPath(path, base_path)
                    ELSE JoinPath(path)
        functions == extract_functions_detailed(f.tree, lang, rel_path, ord)
    IN  IF lang = "none" THEN <<>>
        ELSE IF code = "raise" \/ StripsToEmpty(code) THEN <<>>
        ELSE IF get_language_for_parser(lang) = "none" THEN <<>>
        ELSE <<[filePath |-> rel_path,
                language |-> SUPPORTED_EXTENSIONS[Lower(SplitExt(fname))],
                imports |-> extract_imports(f.tree, lang),
                listOfFunctions |-> functions,
                totalFunctions |-> Len(functions)]>>

-----------------------------------------------------------------------------
(* The code of a function by its name                                       *)

\* the test of find_function on a node: a definition node with an
\* identifier child, or an identifier below a function_declarator child,
\* whose text is function_name
NameMatches(node, lang, function_name) ==
    /\ node.type \in function_types[lang]
    /\ \E k \in 1..Len(node.children) :
          LET child == node.children[k]
          IN  \/ /\ child.type = "identifier"
                 /\ get_node_text(child) = function_name
              \/ /\ child.type = "function_declarator"
                 /\ \E j \in 1..Len(child.children) :
                       /\ child.children[j].type = "identifier"
                       /\ get_node_text(child.children[j]) = function_name

\* "if result": neither None nor the empty str
Truthy(r) == r # <<>> /\ r[1] # ""

\* a search that looks into the children of a node before the node itself
RECURSIVE find_functionChildrenFirst(_, _, _)
RECURSIVE FindInChildrenFirst(_, _, _)
FindInChildrenFirst(ns, lang, function_name) ==
    IF Len(ns) = 0 THEN <<>>
    ELSE LET r == find_functionChildrenFirst(ns[1], lang, function_name)
         IN  IF Truthy(r) THEN r
             ELSE FindInChildrenFirst(Tail(ns), lang, function_name)
find_functionChildrenFirst(node, lang, function_name) ==
    LET r == FindInChildrenFirst(node.children, lang, function_name)
    IN  IF Truthy(r) THEN r
        ELSE IF NameMatches(node, lang, function_name)
        THEN <<get_node_text(node)>>
        ELSE <<>>

\* find_function: <<>> for None, else the text in a 1-tuple
RECURSIVE find_function(_, _, _)
RECURSIVE FindInChildren(_, _, _)
FindInChildren(ns, lang, function_name) ==
    IF Len(ns) = 0 THEN <<>>
    ELSE LET r == find_function(ns[1], lang, function_name)
         IN  IF Truthy(r) THEN r
             ELSE FindInChildren(Tail(ns), lang, function_name)
find_function(node, lang, function_name) ==
    IF NameMatches(node, lang, function_name)
    THEN <<get_node_text(node)>>
    ELSE FindInChildren(node.children, lang, function_name)

get_function_code(root, path, function_name) ==
    LET lang == detect_language(path[Len(path)])
        f == Lookup(root, path)
    IN  IF lang = "none" THEN <<>>
        ELSE IF StripsToEmpty(read_file(f)) THEN <<>>
        ELSE IF get_language_for_parser(lang) = "none" THEN <<>>
        ELSE find_function(f.tree, lang, function_name)

-----------------------------------------------------------------------------
(* The repository walk                                                      *)

SelectEntries(entries, kind) == SelectSeq(entries, LAMBDA e : e.kind = kind)

\* os.walk's dirs and files of a directory: an entry is among dirs if it is
\* a directory or a link to one, among files otherwise
IsDirEntry(e) == e.kind = "dir" \/ (e.kind = "link" /\ e.todir)
DirEntries(entries) == SelectSeq(entries, IsDirEntry)
FileEntries(entries) == SelectSeq(entries, LAMBDA e : ~IsDirEntry(e))

\* an os.walk with followlinks=True
DescendsFollowLinks(e) == TRUE

\* os.walk(repo_path), followlinks left False: of its dirs it walks those
\* that are no links
Descends(e) == e.kind # "link"

\* "dirs = [...]" in place of "dirs[:] = [...]": os.walk's own list is left
\* as it was and every directory is descended into
KeepDirUnpruned(d) == TRUE

\* "dirs[:] = [d for d in dirs if ...]": the directories os.walk descends into
KeepDir(d) == d.name \notin IGNORED_DIRECTORIES /\ ~StartsWith(d.name, ".")

\* the test of the loop over files
KeepFile(f) ==
    /\ ~StartsWith(f.name, ".")
    /\ Lower(SplitExt(f.name)) \in DOMAIN SUPPORTED_EXTENSIONS

\* os.walk top-down from d, whose path is root: the files of d kept, then
\* the walk of each directory of d kept
RECURSIVE WalkDir(_, _)
RECURSIVE WalkDirs(_, _)
WalkDirs(ds, root) ==
    IF Len(ds) = 0 THEN <<>>
    ELSE WalkDir(ds[1], Append(root, ds[1].name)) \o WalkDirs(Tail(ds), root)
WalkDir(d, root) ==
    LET dirs == SelectSeq(DirEntries(d.entries), KeepDir)
        files == SelectSeq(FileEntries(d.entries), KeepFile)
        here == [k \in 1..Len(files) |-> Append(root, files[k].name)]
    IN  here \o WalkDirs(SelectSeq(dirs, Descends), root)

find_source_files(root) == WalkDir(root, <<root.name>>)

-----------------------------------------------------------------------------
(* The graph builder                                                        *)

\* (filePath, function) in the order of the two nested loops
RECURSIVE FunctionPairs(_)
FunctionPairs(files) ==
    IF Len(files) = 0 THEN <<>>
    ELSE [k \in 1..Len(files[1].listOfFunctions) |->
             [filePath |-> files[1].filePath, func |-> files[1].listOfFunctions[k]]]
         \o FunctionPairs(Tail(files))

\* a name index that keeps the first owner of a name
DictSetKeepFirst(d, key, value) ==
    [x \in DOMAIN d \cup {key} |-> IF x \in DOMAIN d THEN d[x] ELSE value]

\* all_functions[name] = filePath
DictSet(d, key, value) ==
    [x \in DOMAIN d \cup {key} |-> IF x = key THEN value ELSE d[x]]

RECURSIVE IndexLoop(_, _)
IndexLoop(pairs, d) ==
    IF Len(pairs) = 0 THEN d
    ELSE IndexLoop(Tail(pairs), DictSet(d, pairs[1].func.name, pairs[1].filePath))

build_index(files) == IndexLoop(FunctionPairs(files), <<>>)

\* the loop over func["calls"] without the test on the owner's file
RECURSIVE CallLoopAnyFile(_, _, _, _)
CallLoopAnyFile(calls, filePath, func, index) ==
    IF Len(calls) = 0 THEN <<>>
    ELSE LET call == calls[1]
             e == IF call \in DOMAIN index
                  THEN <<[source |-> func.functionName,
                          target |-> index[call] \o "-" \o call,
                          sourceFile |-> filePath,
                          targetFile |-> index[call]]>>
                  ELSE <<>>
         IN  e \o CallLoopAnyFile(Tail(calls), filePath, func, index)

\* the loop over func["calls"] with edges whose target is named after the
\* calling function
RECURSIVE CallLoopTargetOfCaller(_, _, _, _)
CallLoopTargetOfCaller(calls, filePath, func, index) ==
    IF Len(calls) = 0 THEN <<>>
    ELSE LET call == calls[1]
             e == IF call \in DOMAIN index /\ index[call] # filePath
                  THEN <<[source |-> func.functionName,
                          target |-> index[call] \o "-" \o func.name,
                          sourceFile |-> filePath,
                          targetFile |-> index[call]]>>
                  ELSE <<>>
         IN  e \o CallLoopTargetOfCaller(Tail(calls), filePath, func, index)

\* the loop over func["calls"] for one function
RECURSIVE CallLoop(_, _, _, _)
CallLoop(calls, filePath, func, index) ==
    IF Len(calls) = 0 THEN <<>>
    ELSE LET call == calls[1]
             e == IF call \in DOMAIN index /\ index[call] # filePath
                  THEN <<[source |-> func.functionName,
                          target |-> index[call] \o "-" \o call,
                          sourceFile |-> filePath,
                          targetFile |-> index[call]]>>
                  ELSE <<>>
         IN  e \o CallLoop(Tail(calls), filePath, func, index)

RECURSIVE EdgeLoop(_, _)
EdgeLoop(pairs, index) ==
    IF Len(pairs) = 0 THEN <<>>
    ELSE CallLoop(pairs[1].func.calls, pairs[1].filePath, pairs[1].func, index)
         \o EdgeLoop(Tail(pairs), index)

\* edges resolved file by file as the files are analyzed, each against the
\* index of the files analyzed up to it
RECURSIVE EdgesUpTo(_, _)
EdgesUpTo(files, k) ==
    IF k = 0 THEN <<>>
    ELSE EdgesUpTo(files, k - 1)
         \o EdgeLoop(FunctionPairs(<<files[k]>>), build_index(SubSeq(files, 1, k)))
build_edgesIncremental(files, index) == EdgesUpTo(files, Len(files))

build_edges(files, index) == EdgeLoop(FunctionPairs(files), index)

\* a total that counts one function for each file
SumTotalFunctionsOnePerFile(files) == Len(files)

RECURSIVE SumTotalFunctions(_)
SumTotalFunctions(files) ==
    IF Len(files) = 0 THEN 0
    ELSE files[1].totalFunctions + SumTotalFunctions(Tail(files))

-----------------------------------------------------------------------------
(* analyze_repo_detailed, step by step                                      *)

\* the names the calls of a file's functions can hold: what the hash order
\* of list(calls) ranges over
CalledNames(tree) == CallsWalk(tree, {})

FindSourceFiles ==
    /\ pc = "start"
    /\ file_paths' = find_source_files(fs)
    /\ idx' = 1
    /\ pc' = "analyze"
    /\ UNCHANGED <<fs, analyzed_files, all_functions, edges, result, outside>>

\* one pass of "for f in file_paths"; an exception out of
\* analyze_file_detailed is caught nowhere and ends analyze_repo_detailed
AnalyzeFile ==
    /\ pc = "analyze"
    /\ idx <= Len(file_paths)
    /\ IF analyze_file_detailedRaises(fs, file_paths[idx])
       THEN /\ pc' = "raised"
            /\ UNCHANGED <<analyzed_files, idx>>
       ELSE /\ \E ord \in ListsOf(CalledNames(Lookup(fs, file_paths[idx]).tree)) :
                  analyzed_files' = analyzed_files \o
                      analyze_file_detailed(fs, file_paths[idx], <<fs.name>>, ord)
            /\ idx' = idx + 1
            /\ pc' = pc
    /\ UNCHANGED <<fs, file_paths, all_functions, edges, result, outside>>

BuildIndex ==
    /\ pc = "analyze"
    /\ idx > Len(file_paths)
    /\ all_functions' = build_index(analyzed_files)
    /\ pc' = "edges"
    /\ UNCHANGED <<fs, file_paths, idx, analyzed_files, edges, result, outside>>

BuildEdges ==
    /\ pc = "edges"
    /\ edges' = build_edges(analyzed_files, all_functions)
    /\ pc' = "return"
    /\ UNCHANGED <<fs, file_paths, idx, analyzed_files, all_functions, result, outside>>

Return ==
    /\ pc = "return"
    /\ result' = <<[listOfFiles |-> analyzed_files,
                    edges |-> edges,
                    totalFiles |-> Len(analyzed_files),
                    totalFunctions |-> SumTotalFunctions(analyzed_files)]>>
    /\ pc' = "done"
    /\ UNCHANGED <<fs, file_paths, idx, analyzed_files, all_functions, edges, outside>>

Next == FindSourceFiles \/ AnalyzeFile \/ BuildIndex \/ BuildEdges \/ Return

\* no call of a service is under way
ServicesIdle == llm = <<>> /\ store = <<>> /\ github = <<>> /\ walk = <<>>

InitPipeline ==
    /\ pc = "start"
    /\ file_paths = <<>>
    /\ idx = 1
    /\ analyzed_files = <<>>
    /\ all_functions = <<>>
    /\ edges = <<>>
    /\ result = <<>>
    /\ ret = <<>>

\* a run of analyze_repo_detailed by one thread
InitRun ==
    /\ InitPipeline
    /\ parser = "none"
    /\ workers = <<>>
    /\ source = <<>>
    /\ usage = <<>>
    /\ requests = <<>>
    /\ ServicesIdle


-----------------------------------------------------------------------------
(* Source files as the parser sees them                                     *)

SeqsUpTo(S, n) == UNION {[1..k -> S] : k \in 0..n}

RECURSIVE Flatten(_)
Flatten(ss) == IF Len(ss) = 0 THEN <<>> ELSE ss[1] \o Flatten(Tail(ss))

Parens == <<Leaf("(", "("), Leaf(")", ")")>>

\* Python: "name()" as a statement, "def name(): <stmts>", a module
PyCallStmt(name) ==
    Node("expression_statement",
         <<Node("call", <<Leaf("identifier", name),
                          Node("argument_list", Parens)>>)>>)
PyFunc(name, stmts) ==
    Node("function_definition",
         <<Leaf("def", "def"), Leaf("identifier", name),
           Node("parameters", Parens), Leaf(":", ":"),
           Node("block", IF Len(stmts) = 0
                         THEN <<Leaf("pass_statement", "pass")>> ELSE stmts)>>)
PyModule(stmts) == Node("module", stmts)

-----------------------------------------------------------------------------
(* Repositories of the graph builder's cases: two Python files in one       *)
(* directory, listed in either order, whose functions call each other by    *)
(* bare name.  A repository is written as a sequence of items, "def name"   *)
(* in a file or "call name" in the body of the definition before it.        *)

MaxItems == 5

GraphFiles == {"a.py", "b.py"}
GraphNames == {"helper", "g"}

GraphItems ==
    [def : {TRUE}, file : GraphFiles, name : GraphNames]
    \cup [def : {FALSE}, file : {""}, name : GraphNames]

\* the items of the body of the definition at k: the calls up to the next def
BodyOf(items, k) ==
    LET later == {j \in (k + 1)..Len(items) : items[j].def}
        stop == IF later = {} THEN Len(items) + 1
                ELSE CHOOSE j \in later : \A i \in later : j <= i
    IN  [j \in 1..(stop - k - 1) |-> PyCallStmt(items[k + j].name)]

GraphFileTree(items, fname) ==
    LET ks == SelectSeq([k \in 1..Len(items) |-> k],
                        LAMBDA k : items[k].def /\ items[k].file = fname)
    IN  PyModule([i \in 1..Len(ks) |-> PyFunc(items[ks[i]].name, BodyOf(items, ks[i]))])

GraphRepo(items, order) ==
    Dir("repo", [i \in 1..Len(order) |->
                    File(order[i], FALSE, GraphFileTree(items, order[i]))])

Init ==
    /\ \E items \in {s \in SeqsUpTo(GraphItems, MaxItems) : Len(s) = 0 \/ s[1].def},
          order \in ListsOf(GraphFiles) :
          fs = GraphRepo(items, order)
    /\ InitRun

Spec == Init /\ [][Next]_vars


-----------------------------------------------------------------------------
(* Functions of the complexity calculator's cases: one file, a.py or a.js,  *)
(* with one function f whose body is a forest of statements.  A body is     *)
(* written in pre-order, each statement with its nesting depth: an if, a    *)
(* while, a nested function definition, a short-circuit expression (a && b, *)
(* a and b) or an arithmetic one (a + b).                                   *)

MaxNodes == 3

StmtLabels == {"if", "while", "func", "and", "plus"}
Containers == {"if", "while", "func"}

StmtItems(n) == [label : StmtLabels, depth : 1..n]

\* a pre-order listing of a forest: the first statement at depth 1, each
\* statement at most one deeper than the one before it, and a statement one
\* deeper than the one before it inside a statement that has a body
WellNested(items) ==
    /\ Len(items) > 0 => items[1].depth = 1
    /\ \A k \in 2..Len(items) :
          /\ items[k].depth <= items[k - 1].depth + 1
          /\ items[k].depth = items[k - 1].depth + 1
                => items[k - 1].label \in Containers
          /\ \A j \in 1..(k - 1) :
                (/\ items[j].depth = items[k].depth - 1
                 /\ \A i \in (j + 1)..(k - 1) : items[i].depth >= items[k].depth)
                => items[j].label \in Containers

Ident(name) == Leaf("identifier", name)

JsBlock(stmts) ==
    Node("statement_block", <<Leaf("{", "{")>> \o stmts \o <<Leaf("}", "}")>>)
JsCond == Node("parenthesized_expression",
               <<Leaf("(", "("), Ident("a"), Leaf(")", ")")>>)
JsFunc(name, stmts) ==
    Node("function_declaration",
         <<Leaf("function", "function"), Ident(name),
           Node("formal_parameters", Parens), JsBlock(stmts)>>)
JsProgram(stmts) == Node("program", stmts)

PyBlock(stmts) ==
    Node("block", IF Len(stmts) = 0
                  THEN <<Leaf("pass_statement", "pass")>> ELSE stmts)

\* the node of one statement, its body given
StmtNode(lang, label, body) ==
    IF lang = "js"
    THEN CASE label = "if" ->
                Node("if_statement", <<Leaf("if", "if"), JsCond, JsBlock(body)>>)
           [] label = "while" ->
                Node("while_statement",
                     <<Leaf("while", "while"), JsCond, JsBlock(body)>>)
           [] label = "func" -> JsFunc("inner", body)
           [] label = "and" ->
                Node("expression_statement",
                     <<Node("binary_expression",
                            <<Ident("a"), Leaf("&&", "&&"), Ident("b")>>)>>)
           [] OTHER ->
                Node("expression_statement",
                     <<Node("binary_expression",
                            <<Ident("a"), Leaf("+", "+"), Ident("b")>>)>>)
    ELSE CASE label = "if" ->
                Node("if_statement",
                     <<Leaf("if", "if"), Ident("a"), Leaf(":", ":"), PyBlock(body)>>)
           [] label = "while" ->
                Node("while_statement",
                     <<Leaf("while", "while"), Ident("a"), Leaf(":", ":"),
                       PyBlock(body)>>)
           [] label = "func" -> PyFunc("inner", body)
           [] label = "and" ->
                Node("expression_statement",
                     <<Node("boolean_operator",
                            <<Ident("a"), Leaf("and", "and"), Ident("b")>>)>>)
           [] OTHER ->
                Node("expression_statement",
                     <<Node("binary_operator",
                            <<Ident("a"), Leaf("+", "+"), Ident("b")>>)>>)

\* the statements of items[lo..hi] at depth d, each with its body
RECURSIVE BuildForest(_, _, _, _, _)
BuildForest(lang, items, lo, hi, d) ==
    LET tops == {k \in lo..hi : items[k].depth = d}
    IN  IF tops = {} THEN <<>>
        ELSE LET k == CHOOSE x \in tops : \A y \in tops : x <= y
                 rest == tops \ {k}
                 nxt == IF rest = {} THEN hi + 1
                        ELSE CHOOSE x \in rest : \A y \in rest : x <= y
             IN  <<StmtNode(lang, items[k].label,
                            BuildForest(lang, items, k + 1, nxt - 1, d + 1))>>
                 \o BuildForest(lang, items, nxt, hi, d)

ComplexityFile(lang, items) ==
    LET body == BuildForest(lang, items, 1, Len(items), 1)
    IN  IF lang = "js" THEN File("a.js", FALSE, JsProgram(<<JsFunc("f", body)>>))
        ELSE File("a.py", FALSE, PyModule(<<PyFunc("f", body)>>))

InitComplexity ==
    /\ \E lang \in {"py", "js"},
          items \in {s \in SeqsUpTo(StmtItems(MaxNodes), MaxNodes) : WellNested(s)} :
          fs = Dir("repo", <<ComplexityFile(lang, items)>>)
    /\ InitRun

SpecComplexity == InitComplexity /\ [][Next]_vars

-----------------------------------------------------------------------------
(* Functions of the call extractor's cases: one file, a.py or a.js, with    *)
(* one function f whose body is a list of call statements.  A body is       *)
(* written as names and ";": the names between two ";" are the callee chain *)
(* of one call, "g" for g() and "self", "g" for self.g() (this.g() in       *)
(* JavaScript).                                                             *)

MaxTokens == 4

CallTokens == {"f", "g", "self", "print", ";"}

\* the callee chains of a body
RECURSIVE Chains(_, _)
Chains(tokens, cur) ==
    IF Len(tokens) = 0 THEN (IF Len(cur) = 0 THEN <<>> ELSE <<cur>>)
    ELSE IF tokens[1] = ";"
    THEN (IF Len(cur) = 0 THEN <<>> ELSE <<cur>>) \o Chains(Tail(tokens), <<>>)
    ELSE Chains(Tail(tokens), Append(cur, tokens[1]))

\* the callee node of a chain: an identifier, or the member access of the
\* last name on the callee of the names before it
RECURSIVE Callee(_, _)
Callee(lang, chain) ==
    IF Len(chain) = 1
    THEN Ident(chain[1])
    ELSE LET obj == IF Len(chain) = 2 /\ lang = "js" /\ chain[1] = "self"
                    THEN Leaf("this", "this")
                    ELSE Callee(lang, SubSeq(chain, 1, Len(chain) - 1))
             last == chain[Len(chain)]
         IN  IF lang = "js"
             THEN Node("member_expression",
                       <<obj, Leaf(".", "."), Leaf("property_identifier", last)>>)
             ELSE Node("attribute", <<obj, Leaf(".", "."), Ident(last)>>)

CallStmt(lang, chain) ==
    Node("expression_statement",
         <<IF lang = "js"
           THEN Node("call_expression",
                     <<Callee(lang, chain), Node("arguments", Parens)>>)
           ELSE Node("call", <<Callee(lang, chain), Node("argument_list", Parens)>>)>>)

CallsFile(lang, tokens) ==
    LET chains == Chains(tokens, <<>>)
        body == [k \in 1..Len(chains) |-> CallStmt(lang, chains[k])]
    IN  IF lang = "js" THEN File("a.js", FALSE, JsProgram(<<JsFunc("f", body)>>))
        ELSE File("a.py", FALSE, PyModule(<<PyFunc("f", body)>>))

InitCalls ==
    /\ \E lang \in {"py", "js"}, tokens \in SeqsUpTo(CallTokens, MaxTokens) :
          fs = Dir("repo", <<CallsFile(lang, tokens)>>)
    /\ InitRun

SpecCalls == InitCalls /\ [][Next]_vars

-----------------------------------------------------------------------------
(* Directory trees of the walker's cases.  A tree is written in pre-order,  *)
(* each entry with its depth below the root: directories (one plain, one of *)
(* the ignore-set, one hidden) and files (two sources, one of them with an  *)
(* upper-case extension, a hidden source, a file that is no source).        *)

MaxEntries == 4

DirNames == {"src", "node_modules", ".github"}
FileNames == {"a.py", "B.JS", ".h.py", "r.md"}

\* the entries before place k that lie in the same directory as place k
\* would, at depth d
SiblingsAt(items, k, d) ==
    {j \in 1..(k - 1) :
        /\ items[j].depth = d
        /\ \A i \in (j + 1)..(k - 1) : items[i].depth >= d}

\* may the entry it follow the listing items: at most one deeper than the
\* entry before it, and then inside that entry, a directory; under a name
\* its directory does not hold yet
MayFollow(items, it) ==
    LET k == Len(items) + 1
    IN  /\ k = 1 => it.depth = 1
        /\ k > 1 => /\ it.depth <= items[k - 1].depth + 1
                    /\ it.depth = items[k - 1].depth + 1
                          => items[k - 1].name \in DirNames
        /\ \A j \in SiblingsAt(items, k, it.depth) : items[j].name # it.name

RECURSIVE Listings(_)
Listings(n) ==
    IF n = 0 THEN {<<>>}
    ELSE LET prev == Listings(n - 1)
         IN  prev \cup
             {Append(q[1], q[2]) :
                 q \in {r \in {p \in prev : Len(p) = n - 1}
                              \X [name : DirNames \cup FileNames, depth : 1..n] :
                           MayFollow(r[1], r[2])}}

\* what read_file and the parser give for a file of that name
FileOfName(name) ==
    CASE detect_language(name) = "py" ->
            File(name, FALSE, PyModule(<<PyFunc("f", <<>>)>>))
      [] detect_language(name) = "js" ->
            File(name, FALSE, JsProgram(<<JsFunc("f", <<>>)>>))
      [] OTHER -> File(name, FALSE, Leaf("", ""))

\* the entries of items[lo..hi] at depth d, each directory with its entries
RECURSIVE BuildEntries(_, _, _, _)
BuildEntries(items, lo, hi, d) ==
    LET tops == {k \in lo..hi : items[k].depth = d}
    IN  IF tops = {} THEN <<>>
        ELSE LET k == CHOOSE x \in tops : \A y \in tops : x <= y
                 rest == tops \ {k}
                 nxt == IF rest = {} THEN hi + 1
                        ELSE CHOOSE x \in rest : \A y \in rest : x <= y
             IN  <<IF items[k].name \in DirNames
                   THEN Dir(items[k].name, BuildEntries(items, k + 1, nxt - 1, d + 1))
                   ELSE FileOfName(items[k].name)>>
                 \o BuildEntries(items, nxt, hi, d)

WalkRepo(items) == Dir("repo", BuildEntries(items, 1, Len(items), 1))

InitWalk ==
    /\ \E items \in Listings(MaxEntries) : fs = WalkRepo(items)
    /\ InitRun

SpecWalk == InitWalk /\ [][Next]_vars

-----------------------------------------------------------------------------
(* GET /api/analyze/{repo_id} (routes/analysis.py).  The route has a walk    *)
(* and a per-file analysis of its own; the project is the directory          *)
(* processed_repos/<repo_id> below the working directory of the server.      *)
(* Of a file's analysis the path is modelled; the functions the route finds  *)
(* with regular expressions in the text are not.                             *)

ROUTE_IGNORED == {".git", "node_modules", "__pycache__", ".vscode", "dist", "build"}
ROUTE_EXTENSIONS == {".py", ".js", ".ts", ".tsx", ".jsx"}

\* str.endswith
EndsWith(s, suffix) ==
    Len(s) >= Len(suffix) /\ SubSeq(s, Len(s) - Len(suffix) + 1, Len(s)) = suffix

\* the working directory of the server process
Cwd == <<"srv", "backend">>

\* os.path.abspath of a relative path
abspath(comps) == "/" \o JoinPath(Cwd \o comps)

RouteKeepDir(d) == d.name \notin ROUTE_IGNORED
RouteKeepFile(f) == \E ext \in ROUTE_EXTENSIONS : EndsWith(f.name, ext)

\* the os.walk of the route's find_source_files
RECURSIVE RouteWalkDir(_, _)
RECURSIVE RouteWalkDirs(_, _)
RouteWalkDirs(ds, root) ==
    IF Len(ds) = 0 THEN <<>>
    ELSE RouteWalkDir(ds[1], Append(root, ds[1].name)) \o RouteWalkDirs(Tail(ds), root)
RouteWalkDir(d, root) ==
    LET dirs == SelectSeq(SelectEntries(d.entries, "dir"), RouteKeepDir)
        files == SelectSeq(SelectEntries(d.entries, "file"), RouteKeepFile)
        here == [k \in 1..Len(files) |-> abspath(Append(root, files[k].name))]
    IN  here \o RouteWalkDirs(dirs, root)

\* find_source_files(repo_path) of the route
route_find_source_files(repo_path) == RouteWalkDir(fs, repo_path)

\* analyze_file of the route: the path it is given is the filePath
route_analyze_file(file_path) == [filePath |-> file_path]

\* analyze_project: 404 without source files, else the map, which is also
\* written to architecture_map.json
AnalyzeProject ==
    /\ pc = "done"
    /\ LET repo_path == <<"processed_repos", fs.name>>
           source_files == route_find_source_files(repo_path)
           architecture_map ==
               [listOfFiles |-> [k \in 1..Len(source_files) |->
                                    route_analyze_file(source_files[k])]]
       IN  ret' = <<IF Len(source_files) = 0
                    THEN [op |-> "analyze_project", status |-> 404,
                          architecture_map |-> [listOfFiles |-> <<>>],
                          json_file |-> <<>>]
                    ELSE [op |-> "analyze_project", status |-> 200,
                          architecture_map |-> architecture_map,
                          json_file |-> <<architecture_map>>]>>
    /\ UNCHANGED <<pipeline, parser, workers, source, limiter, services>>

NextRoute == Next \/ AnalyzeProject

SpecRoute == InitWalk /\ [][NextRoute]_vars

-----------------------------------------------------------------------------
(* Direct calls of the module's functions.  A caller runs them one at a     *)
(* time, here after analyze_repo_detailed has returned, on any file of the  *)
(* tree, with or without a base path.                                       *)

CallAnalyzeFile ==
    /\ pc = "done"
    /\ \E f \in Range(AllFilesBelow(fs, <<fs.name>>)),
          base_path \in {<<>>, <<fs.name>>} :
          \E ord \in ListsOf(CalledNames(f.file.tree)) :
              ret' = <<[op |-> "analyze_file_detailed",
                        path |-> f.path,
                        raised |-> analyze_file_detailedRaises(fs, f.path),
                        value |-> IF analyze_file_detailedRaises(fs, f.path)
                                  THEN <<>>
                                  ELSE analyze_file_detailed(fs, f.path,
                                                             base_path, ord)]>>
    /\ UNCHANGED <<pipeline, parser, workers, source, limiter, services>>

\* the names a caller asks get_function_code for
RequestNames == {"f", "g", "h", "inner", "helper"}

CallGetFunctionCode ==
    /\ pc = "done"
    /\ \E f \in Range(AllFilesBelow(fs, <<fs.name>>)),
          function_name \in RequestNames :
          ret' = <<[op |-> "get_function_code",
                    path |-> f.path,
                    function_name |-> function_name,
                    value |-> get_function_code(fs, f.path, function_name)]>>
    /\ UNCHANGED <<pipeline, parser, workers, source, limiter, services>>

NextApi == Next \/ CallAnalyzeFile \/ CallGetFunctionCode

-----------------------------------------------------------------------------
(* Directories of the per-file conditions: files in one directory, sources  *)
(* and a file that is none, each readable or not and with bytes of each     *)
(* kind.                                                                    *)

MaxFiles == 2

ConditionNames == {"a.py", "b.js", "c.py", "r.md"}
RawKinds == {"empty", "blank", "text", "invalid", "blank+invalid", "text+invalid"}

ConditionFiles ==
    {d \in [name : ConditionNames, readable : BOOLEAN, raw : RawKinds] :
        ~d.readable => d.raw = "text"}

\* the parse of the text of a file of that name: c.py has two functions,
\* the other sources one
ConditionTree(name) ==
    IF name = "c.py" THEN PyModule(<<PyFunc("f", <<>>), PyFunc("g", <<>>)>>)
    ELSE FileOfName(name).tree

ConditionRepo(ds) ==
    Dir("repo", [k \in 1..Len(ds) |->
                    RawFile(ds[k].name, ds[k].readable, ds[k].raw,
                            ConditionTree(ds[k].name))])

InitFiles ==
    /\ \E ds \in {s \in SeqsUpTo(ConditionFiles, MaxFiles) :
                     \A i, j \in 1..Len(s) : i # j => s[i].name # s[j].name} :
          fs = ConditionRepo(ds)
    /\ InitRun

SpecFiles == InitFiles /\ [][NextApi]_vars

-----------------------------------------------------------------------------
(* Files of definitions by name: one file, a.py or a.js, whose functions    *)
(* are written in pre-order, each with its name and its nesting depth; ""   *)
(* is a function without a name (in JavaScript, "(function () {})").  The   *)
(* body of the definition at place k starts with the k-th mark, a name as   *)
(* a statement, so that no two definitions have the same text.              *)

MaxDefs == 3

DefNames == {"f", "g", ""}
Marks == <<"m1", "m2", "m3", "m4", "m5">>

DefItems(n) == [name : DefNames, depth : 1..n]

\* a pre-order listing of a forest of definitions
NestedDefs(items) ==
    /\ Len(items) > 0 => items[1].depth = 1
    /\ \A k \in 2..Len(items) : items[k].depth <= items[k - 1].depth + 1

\* "name" as a statement (in JavaScript "name;")
MarkStmt(lang, name) ==
    Node("expression_statement",
         IF lang = "js" THEN <<Ident(name), Leaf(";", ";")>> ELSE <<Ident(name)>>)

\* (function () { ... })
JsAnonymous(stmts) ==
    Node("expression_statement",
         <<Node("parenthesized_expression",
                <<Leaf("(", "("),
                  Node("function_expression",
                       <<Leaf("function", "function"),
                         Node("formal_parameters", Parens), JsBlock(stmts)>>),
                  Leaf(")", ")")>>)>>)

DefNode(lang, name, stmts) ==
    IF lang = "js"
    THEN (IF name = "" THEN JsAnonymous(stmts) ELSE JsFunc(name, stmts))
    ELSE PyFunc(name, stmts)

\* the definitions of items[lo..hi] at depth d, each with its body
RECURSIVE BuildDefs(_, _, _, _, _)
BuildDefs(lang, items, lo, hi, d) ==
    LET tops == {k \in lo..hi : items[k].depth = d}
    IN  IF tops = {} THEN <<>>
        ELSE LET k == CHOOSE x \in tops : \A y \in tops : x <= y
                 rest == tops \ {k}
                 nxt == IF rest = {} THEN hi + 1
                        ELSE CHOOSE x \in rest : \A y \in rest : x <= y
                 mark == MarkStmt(lang, Marks[k])
             IN  <<DefNode(lang, items[k].name,
                           <<mark>> \o BuildDefs(lang, items, k + 1, nxt - 1, d + 1))>>
                 \o BuildDefs(lang, items, nxt, hi, d)

DefsFile(lang, items) ==
    LET defs == BuildDefs(lang, items, 1, Len(items), 1)
    IN  IF lang = "js" THEN File("a.js", FALSE, JsProgram(defs))
        ELSE File("a.py", FALSE, PyModule(defs))

InitDefs ==
    /\ \E lang \in {"py", "js"},
          items \in {s \in SeqsUpTo(DefItems(MaxDefs), MaxDefs) : NestedDefs(s)} :
          /\ lang = "py" => \A k \in 1..Len(items) : items[k].name # ""
          /\ fs = Dir("repo", <<DefsFile(lang, items)>>)
    /\ InitRun

SpecDefs == InitDefs /\ [][NextApi]_vars

-----------------------------------------------------------------------------
(* Per-file functions run at the same time.  analyze_file_detailed and      *)
(* get_function_code both go: detect the language, read, get the grammar;   *)
(* "parser.language = language"; "tree = parser.parse(...)"; the rest works *)
(* on locals.  parser is the one object of the module, so the two           *)
(* statements are two steps on shared state, and a thread may be            *)
(* rescheduled between them.                                                *)

MaxWorkers == 2

Workers == 1..MaxWorkers
WorkerFiles == <<"a.py", "b.js", "c.rs", "d.java", "r.md">>
WorkerOps == {"analyze_file_detailed", "get_function_code"}

\* a thread about to call op on the file name
Worker(op, name) ==
    [op |-> op, name |-> name, wpc |-> "start", language |-> "none",
     parsed_with |-> "none"]

\* lines 557-568 (656-666): the returns of None, else the grammar as a local
WStart(w) ==
    /\ workers[w].wpc = "start"
    /\ LET lang == detect_language(workers[w].name)
           code == read_file(Lookup(fs, <<fs.name, workers[w].name>>))
       IN  workers' =
             [workers EXCEPT ![w] =
                IF lang = "none" \/ StripsToEmpty(code)
                      \/ get_language_for_parser(lang) = "none"
                THEN [@ EXCEPT !.wpc = "returned"]
                ELSE [@ EXCEPT !.wpc = "set",
                               !.language = get_language_for_parser(lang)]]
    /\ UNCHANGED <<pipeline, ret, parser, source, limiter, services>>

\* line 570 (668): parser.language = language
WSetLanguage(w) ==
    /\ workers[w].wpc = "set"
    /\ parser' = workers[w].language
    /\ workers' = [workers EXCEPT ![w].wpc = "parse"]
    /\ UNCHANGED <<pipeline, ret, source, limiter, services>>

\* line 571 (669): tree = parser.parse(...), with the grammar parser is set
\* to at that moment
WParse(w) ==
    /\ workers[w].wpc = "parse"
    /\ workers' = [workers EXCEPT ![w].wpc = "returned",
                                  ![w].parsed_with = parser]
    /\ UNCHANGED <<pipeline, ret, parser, source, limiter, services>>

NextConcurrent == \E w \in Workers : WStart(w) \/ WSetLanguage(w) \/ WParse(w)

InitConcurrent ==
    /\ fs = Dir("repo", [k \in 1..Len(WorkerFiles) |-> FileOfName(WorkerFiles[k])])
    /\ InitPipeline
    /\ parser = "none"
    /\ workers \in [Workers -> {Worker(op, name) :
                                   op \in WorkerOps, name \in Range(WorkerFiles)}]
    /\ source = <<>>
    /\ usage = <<>>
    /\ requests = <<>>
    /\ ServicesIdle

SpecConcurrent == InitConcurrent /\ [][NextConcurrent]_vars

-----------------------------------------------------------------------------
(* Source text and the place of a definition in it.  The code read from a   *)
(* file is a str, a sequence of characters; the parser works on             *)
(* bytes(code, "utf-8") and gives for a node its byte offsets and the rows  *)
(* of its first and last character.  A text is a sequence of characters:    *)
(* "x", any character of one byte that ends no line; "SP", a blank; "LF",   *)
(* the line feed; "U2", a character of two bytes (e with an acute accent).  *)

MaxChars == 5

Chars == {"x", "SP", "LF", "U2"}

\* the bytes of the UTF-8 encoding of a character
Width(c) == IF c = "U2" THEN 2 ELSE 1

RECURSIVE ByteLen(_)
ByteLen(text) == IF Len(text) = 0 THEN 0 ELSE Width(text[1]) + ByteLen(Tail(text))

\* the line feeds of a text
Rows(text) == Cardinality({k \in 1..Len(text) : text[k] = "LF"})

\* the node of a definition whose first and last characters are at first
\* and last: start_byte, end_byte, start_point[0], end_point[0]
DefinitionNode(text, first, last) ==
    [start_byte |-> ByteLen(SubSeq(text, 1, first - 1)),
     end_byte |-> ByteLen(SubSeq(text, 1, last)),
     start_row |-> Rows(SubSeq(text, 1, first - 1)),
     end_row |-> Rows(SubSeq(text, 1, last))]

\* code[i:j] for 0 <= i, j: the characters at the places i+1..j of the str
StrSlice(code, i, j) == SubSeq(code, i + 1, IF j < Len(code) THEN j ELSE Len(code))

\* get_node_text on a text: the byte offsets of the node index the str
get_node_textOfStr(node, code) == StrSlice(code, node.start_byte, node.end_byte)

\* lines 258-263 and 274-277 of extract_function_details
FunctionLines(node, code) ==
    LET start_line == node.start_row + 1
        end_line == node.end_row + 1
    IN  [startLine |-> start_line,
         endLine |-> end_line,
         lines |-> end_line - start_line + 1,
         code |-> get_node_textOfStr(node, code)]

ExtractDetails ==
    /\ ret = <<>>
    /\ ret' = <<[op |-> "extract_function_details",
                 value |-> FunctionLines(
                     DefinitionNode(source.text, source.first, source.last),
                     source.text)]>>
    /\ UNCHANGED <<pipeline, parser, workers, source, limiter, services>>

NextText == ExtractDetails

\* a definition starts and ends with a token, not with white space
Sources ==
    {src \in [text : SeqsUpTo(Chars, MaxChars), first : 1..MaxChars,
              last : 1..MaxChars] :
        /\ src.first <= src.last
        /\ src.last <= Len(src.text)
        /\ src.text[src.first] \notin {"SP", "LF"}
        /\ src.text[src.last] \notin {"SP", "LF"}}

InitText ==
    /\ fs = Dir("repo", <<>>)
    /\ InitPipeline
    /\ parser = "none"
    /\ workers = <<>>
    /\ source \in Sources
    /\ usage = <<>>
    /\ requests = <<>>
    /\ ServicesIdle

SpecText == InitText /\ [][NextText]_vars

-----------------------------------------------------------------------------
(* services/rate_limiter.py: the function-detail limit.  A request checks   *)
(* the limit, does its work and records itself; RateLimiter holds no lock,  *)
(* so the check and the record of a request are two steps, and the steps of *)
(* the requests in flight interleave.                                       *)

MaxRequests == 2

max_function_details == 5

Requests == 1..MaxRequests
Pairs == {<<"ip1", "r1">>, <<"ip1", "r2">>, <<"ip2", "r1">>}

\* self._function_detail_usage[key] of a defaultdict(int): the count, 0 for
\* a key not yet there, which the read puts there
UsageGet(d, key) == IF key \in DOMAIN d THEN d[key] ELSE 0
UsageTouch(d, key) == IF key \in DOMAIN d THEN d ELSE DictSet(d, key, 0)

\* check_function_detail_limit: (allowed, current_count, max_allowed)
check_function_detail_limit(d, key) ==
    [allowed |-> UsageGet(d, key) < max_function_details,
     current |-> UsageGet(d, key),
     max |-> max_function_details]

IdleRequest == [key |-> <<>>, rpc |-> "idle", allowed |-> FALSE]

\* a request arrives for key and checks the limit
CheckLimit(r) ==
    /\ requests[r].rpc = "idle"
    /\ \E key \in Pairs :
          /\ requests' = [requests EXCEPT ![r] =
                [key |-> key, rpc |-> "checked",
                 allowed |-> check_function_detail_limit(usage, key).allowed]]
          /\ usage' = UsageTouch(usage, key)
    /\ UNCHANGED <<pipeline, ret, parser, workers, source, services>>

\* record_function_detail, by a request whose check returned allowed
RecordDetail(r) ==
    /\ requests[r].rpc = "checked"
    /\ requests[r].allowed
    /\ usage' = DictSet(usage, requests[r].key, UsageGet(usage, requests[r].key) + 1)
    /\ requests' = [requests EXCEPT ![r] = IdleRequest]
    /\ UNCHANGED <<pipeline, ret, parser, workers, source, services>>

\* a request whose check returned not allowed ends without a record
Refuse(r) ==
    /\ requests[r].rpc = "checked"
    /\ ~requests[r].allowed
    /\ requests' = [requests EXCEPT ![r] = IdleRequest]
    /\ UNCHANGED <<pipeline, ret, parser, workers, source, usage, services>>

\* reset_project_limits
ResetProject ==
    /\ \E key \in DOMAIN usage :
          usage' = [k \in DOMAIN usage \ {key} |-> usage[k]]
    /\ UNCHANGED <<pipeline, ret, parser, workers, source, requests, services>>

NextLimiter ==
    \/ \E r \in Requests : CheckLimit(r) \/ RecordDetail(r) \/ Refuse(r)
    \/ ResetProject

InitLimiter ==
    /\ fs = Dir("repo", <<>>)
    /\ InitPipeline
    /\ parser = "none"
    /\ workers = <<>>
    /\ source = <<>>
    /\ usage = <<>>
    /\ requests = [r \in Requests |-> IdleRequest]
    /\ ServicesIdle

SpecLimiter == InitLimiter /\ [][NextLimiter]_vars

-----------------------------------------------------------------------------
(* services/llm_provider.py: generate_with_fallback.  A call reads the      *)
(* configured providers and then awaits one provider call after another;    *)
(* what a provider call does is the environment's choice.                   *)

MaxCalls == 2

\* everything but the services, and its state when only a service runs
analysis == <<pipeline, ret, parser, workers, source, limiter>>

InitAnalysisIdle ==
    /\ fs = Dir("repo", <<>>)
    /\ InitPipeline
    /\ parser = "none"
    /\ workers = <<>>
    /\ source = <<>>
    /\ usage = <<>>
    /\ requests = <<>>

PROVIDER_PRIORITY == <<"groq", "gemini", "cohere">>

\* os.getenv(config["api_key_env"]): unset, only blanks, or a key
KeyStates == {"unset", "blank", "key"}

\* api_key and api_key.strip()
Configured(env, provider) == env[provider] = "key"

\* get_available_providers with the priority list read backwards
get_available_providersReversed(env) ==
    LET n == Len(PROVIDER_PRIORITY)
    IN  SelectSeq([i \in 1..n |-> PROVIDER_PRIORITY[n + 1 - i]],
                  LAMBDA p : Configured(env, p))

get_available_providers(env) ==
    SelectSeq(PROVIDER_PRIORITY, LAMBDA p : Configured(env, p))

\* what awaiting call_fn(prompt, max_tokens) can do: return a text, raise
\* LLMError (status 429, another status, for Gemini no candidates) or raise
\* another exception (a timeout, a response of another shape)
Outcomes(provider) ==
    {"ok", "rate_limit", "api_error", "exception"}
        \cup (IF provider = "gemini" THEN {"no_candidates"} ELSE {})

Texts == {"", "summary"}

IsLLMError(outcome) == outcome \in {"rate_limit", "api_error", "no_candidates"}

\* e.message, str(e)
Message(outcome) ==
    CASE outcome = "rate_limit" -> "Rate limit exceeded"
      [] outcome = "api_error" -> "API error: 500"
      [] outcome = "no_candidates" -> "No response generated"
      [] OTHER -> "timed out"

\* a handler that catches LLMError only
CaughtLLMErrorOnly(outcome) == IsLLMError(outcome)

\* except LLMError / except Exception
Caught(outcome) == IsLLMError(outcome) \/ outcome = "exception"

NoProviders ==
    [text |-> "", provider |-> "none",
     error |-> "No LLM providers configured. Add API keys to .env"]

\* '; '.join(errors)
JoinErrors(errors) ==
    LET RECURSIVE Join(_)
        Join(k) == IF k > Len(errors) THEN ""
                   ELSE IF k = Len(errors) THEN errors[k]
                   ELSE errors[k] \o "; " \o Join(k + 1)
    IN  Join(1)

AllFailed(errors) ==
    [text |-> "", provider |-> "none",
     error |-> "All providers failed: " \o JoinErrors(errors)]

\* generate_with_fallback up to its first await
GenerateStart ==
    /\ llm.pc \in {"idle", "returned"}
    /\ llm.calls < MaxCalls
    /\ LET available == get_available_providers(llm.env)
       IN  llm' = IF available = <<>>
                  THEN [llm EXCEPT !.pc = "returned", !.calls = @ + 1,
                                   !.available = available, !.i = 1,
                                   !.errors = <<>>, !.attempts = <<>>,
                                   !.result = <<NoProviders>>]
                  ELSE [llm EXCEPT !.pc = "loop", !.calls = @ + 1,
                                   !.available = available, !.i = 1,
                                   !.errors = <<>>, !.attempts = <<>>,
                                   !.result = <<>>]
    /\ UNCHANGED <<analysis, store, github, walk>>

\* the awaited provider call ends; generate_with_fallback runs to its next
\* await or to its return
TryProvider ==
    /\ llm.pc = "loop"
    /\ LET provider == llm.available[llm.i]
       IN  \E outcome \in Outcomes(provider), text \in Texts :
             LET attempts == Append(llm.attempts,
                                    [provider |-> provider, outcome |-> outcome])
                 errors == Append(llm.errors,
                                  provider \o ": " \o Message(outcome))
             IN  llm' =
                   IF outcome = "ok"
                   THEN [llm EXCEPT !.pc = "returned", !.attempts = attempts,
                            !.result = <<[text |-> text, provider |-> provider,
                                          error |-> "None"]>>]
                   ELSE IF ~Caught(outcome)
                   THEN [llm EXCEPT !.pc = "raised", !.attempts = attempts]
                   ELSE IF llm.i = Len(llm.available)
                   THEN [llm EXCEPT !.pc = "returned", !.attempts = attempts,
                            !.errors = errors,
                            !.result = <<AllFailed(errors)>>]
                   ELSE [llm EXCEPT !.i = @ + 1, !.attempts = attempts,
                                    !.errors = errors]
    /\ UNCHANGED <<analysis, store, github, walk>>

NextLlm == GenerateStart \/ TryProvider

InitLlm ==
    /\ InitAnalysisIdle
    /\ store = <<>>
    /\ github = <<>>
    /\ walk = <<>>
    /\ \E env \in [Range(PROVIDER_PRIORITY) -> KeyStates] :
         llm = [env |-> env, pc |-> "idle", calls |-> 0, available |-> <<>>,
                i |-> 1, errors |-> <<>>, attempts |-> <<>>, result |-> <<>>]

SpecLlm == InitLlm /\ [][NextLlm]_vars

-----------------------------------------------------------------------------
(* The routes over processed_repos: POST /api/upload (routes/upload.py),    *)
(* POST /api/github/clone (routes/github.py), GET /api/analyze/{repo_id}    *)
(* and GET /api/files/{repo_id} (routes/analysis.py).  None of these        *)
(* handlers awaits between its reads and writes of the directory, so each   *)
(* is one step.                                                             *)

MaxRepos == 2

\* str(uuid.uuid4()): the k-th identifier handed out
RepoNames == <<"r1", "r2", "r3", "r4">>
RepoIds == {RepoNames[k] : k \in 1..MaxRepos}

\* the files of an uploaded archive or a cloned repository: a source file
\* or none, and no architecture_map.json, one as analyze_project writes it,
\* or one of other content
MapFile(raw) == RawFile("architecture_map.json", TRUE, raw, Leaf("", ""))
Archives ==
    {src \o map :
        src \in {<<>>, <<File("a.py", FALSE, Leaf("", ""))>>},
        map \in {<<>>, <<MapFile("map")>>, <<MapFile("other")>>}}

MetadataFile == RawFile("project_metadata.json", TRUE, "text", Leaf("", ""))

\* os.path.exists(os.path.join(repo_path, name))
HasEntry(d, name) == \E k \in 1..Len(d.entries) : d.entries[k].name = name
EntryNamed(d, name) ==
    d.entries[CHOOSE k \in 1..Len(d.entries) : d.entries[k].name = name]

\* open(path, 'w') and a dump: the file is replaced or added
WriteEntry(d, f) ==
    [d EXCEPT !.entries =
        SelectSeq(d.entries, LAMBDA e : e.name # f.name) \o <<f>>]

Remove(repos, gone) == [r \in DOMAIN repos \ gone |-> repos[r]]

\* get_project_files: the status of the response
get_project_files(repos, repo_id) ==
    IF repo_id \notin DOMAIN repos THEN 404
    ELSE IF ~HasEntry(repos[repo_id], "architecture_map.json") THEN 404
    ELSE IF EntryNamed(repos[repo_id], "architecture_map.json").raw = "map" THEN 200
    ELSE 500

Respond(op, repo_id, status) ==
    <<[op |-> op, repo_id |-> repo_id, status |-> status,
       existed |-> repo_id \in DOMAIN store.repos,
       analyzed |-> repo_id \in store.analyzed]>>

\* upload_repo: cleanup_old_projects removes the projects older than an
\* hour, then the archive is refused or unpacked under a new identifier
UploadRepo ==
    /\ store.issued < MaxRepos
    /\ \E old \in SUBSET DOMAIN store.repos, archive \in Archives, ok \in BOOLEAN :
         LET repo_id == RepoNames[store.issued + 1]
             kept == Remove(store.repos, old)
         IN  store' =
               IF ok
               THEN [store EXCEPT
                       !.issued = @ + 1,
                       !.repos = DictSet(kept, repo_id,
                                   WriteEntry(Dir(repo_id, archive), MetadataFile)),
                       !.resp = <<[op |-> "upload", repo_id |-> repo_id,
                                   status |-> 200, existed |-> FALSE,
                                   analyzed |-> FALSE]>>]
               ELSE [store EXCEPT
                       !.repos = kept,
                       !.resp = <<[op |-> "upload", repo_id |-> "",
                                   status |-> 400, existed |-> FALSE,
                                   analyzed |-> FALSE]>>]
    /\ UNCHANGED <<analysis, llm, github, walk>>

\* clone_and_analyze: cleanup_previous_projects removes every project, then
\* the repository is cloned under a new identifier
CloneRepo ==
    /\ store.issued < MaxRepos
    /\ \E archive \in Archives :
         LET repo_id == RepoNames[store.issued + 1]
         IN  store' = [store EXCEPT
                 !.issued = @ + 1,
                 !.repos = DictSet(<<>>, repo_id,
                             WriteEntry(Dir(repo_id, archive), MetadataFile)),
                 !.resp = <<[op |-> "clone", repo_id |-> repo_id,
                             status |-> 200, existed |-> FALSE,
                             analyzed |-> FALSE]>>]
    /\ UNCHANGED <<analysis, llm, github, walk>>

\* analyze_project
AnalyzeRepo ==
    /\ \E repo_id \in RepoIds :
         IF repo_id \notin DOMAIN store.repos
         THEN store' = [store EXCEPT !.resp = Respond("analyze", repo_id, 404)]
         ELSE LET repo_path == <<"processed_repos", repo_id>>
                  source_files == RouteWalkDir(store.repos[repo_id], repo_path)
              IN  IF Len(source_files) = 0
                  THEN store' = [store EXCEPT
                                   !.resp = Respond("analyze", repo_id, 404)]
                  ELSE store' = [store EXCEPT
                         !.repos = DictSet(@, repo_id,
                                     WriteEntry(store.repos[repo_id], MapFile("map"))),
                         !.analyzed = @ \cup {repo_id},
                         !.resp = Respond("analyze", repo_id, 200)]
    /\ UNCHANGED <<analysis, llm, github, walk>>

\* get_project_files
GetProjectFiles ==
    /\ \E repo_id \in RepoIds :
         store' = [store EXCEPT
            !.resp = Respond("files", repo_id,
                             get_project_files(store.repos, repo_id))]
    /\ UNCHANGED <<analysis, llm, github, walk>>

NextStore == UploadRepo \/ CloneRepo \/ AnalyzeRepo \/ GetProjectFiles

InitStore ==
    /\ InitAnalysisIdle
    /\ llm = <<>>
    /\ github = <<>>
    /\ walk = <<>>
    /\ store = [repos |-> <<>>, issued |-> 0, analyzed |-> {}, resp |-> <<>>]

SpecStore == InitStore /\ [][NextStore]_vars

-----------------------------------------------------------------------------
(* Files of the import extractors' cases: one file, a.py or a.js, written   *)
(* as a list of import statements, each either a statement of the file or   *)
(* a statement of the body of the file's one function f.  The forms are     *)
(* "import m", "from m import x" and "import m as x" in Python, and         *)
(* "import x from 'm';" and "const x = require('m');" in JavaScript.        *)

MaxImports == 2

ImportForms(lang) ==
    IF lang = "js" THEN {"import", "require"} ELSE {"import", "from", "alias"}
ImportModules == {"os", "json"}
ImportItems(lang) ==
    [form : ImportForms(lang), module : ImportModules, nested : BOOLEAN]

DottedName(name) == Node("dotted_name", <<Ident(name)>>)
JsString(text) == Leaf("string", "'" \o text \o "'")

ImportStmt(lang, form, module) ==
    CASE lang = "py" /\ form = "import" ->
           Node("import_statement", <<Leaf("import", "import"), DottedName(module)>>)
      [] lang = "py" /\ form = "alias" ->
           Node("import_statement",
                <<Leaf("import", "import"),
                  Node("aliased_import",
                       <<DottedName(module), Leaf("as", "as"), Ident("x")>>)>>)
      [] lang = "py" /\ form = "from" ->
           Node("import_from_statement",
                <<Leaf("from", "from"), DottedName(module),
                  Leaf("import", "import"), DottedName("x")>>)
      [] lang = "js" /\ form = "import" ->
           Node("import_statement",
                <<Leaf("import", "import"), Node("import_clause", <<Ident("x")>>),
                  Leaf("from", "from"), JsString(module), Leaf(";", ";")>>)
      [] OTHER ->
           Node("lexical_declaration",
                <<Leaf("const", "const"),
                  Node("variable_declarator",
                       <<Ident("x"), Leaf("=", "="),
                         Node("call_expression",
                              <<Ident("require"),
                                Node("arguments",
                                     <<Leaf("(", "("), JsString(module),
                                       Leaf(")", ")")>>)>>)>>),
                  Leaf(";", ";")>>)

ImportStmts(lang, items, nested) ==
    LET kept == SelectSeq(items, LAMBDA it : it.nested = nested)
    IN  [k \in 1..Len(kept) |-> ImportStmt(lang, kept[k].form, kept[k].module)]

ImportsFile(lang, items) ==
    LET tops == ImportStmts(lang, items, FALSE)
        body == ImportStmts(lang, items, TRUE)
    IN  IF lang = "js"
        THEN File("a.js", FALSE, JsProgram(tops \o <<JsFunc("f", body)>>))
        ELSE File("a.py", FALSE, PyModule(tops \o <<PyFunc("f", body)>>))

InitImports ==
    /\ \E lang \in {"py", "js"} :
         \E items \in SeqsUpTo(ImportItems(lang), MaxImports) :
            fs = Dir("repo", <<ImportsFile(lang, items)>>)
    /\ InitRun

SpecImports == InitImports /\ [][NextApi]_vars

-----------------------------------------------------------------------------
(* Files of the parameter cases: one file, a.py or a.js, with one function  *)
(* f whose parameter list is written as a list of kinds; the k-th parameter *)
(* has the k-th name.  In Python: a, a: int, a=1, a: int = 1, *a, **a; in   *)
(* JavaScript: a, a = 1, ...a, {a}.                                         *)

MaxParams == 3

ParamNames == <<"p", "q", "r", "s">>
ParamKinds(lang) ==
    IF lang = "js" THEN {"plain", "default", "rest", "object"}
    ELSE {"plain", "typed", "default", "typed_default", "splat", "dict_splat"}

ParamNode(lang, kind, name) ==
    CASE kind = "plain" -> Ident(name)
      [] lang = "py" /\ kind = "typed" ->
           Node("typed_parameter",
                <<Ident(name), Leaf(":", ":"), Node("type", <<Ident("int")>>)>>)
      [] lang = "py" /\ kind = "default" ->
           Node("default_parameter",
                <<Ident(name), Leaf("=", "="), Leaf("integer", "1")>>)
      [] lang = "py" /\ kind = "typed_default" ->
           Node("typed_default_parameter",
                <<Ident(name), Leaf(":", ":"), Node("type", <<Ident("int")>>),
                  Leaf("=", "="), Leaf("integer", "1")>>)
      [] lang = "py" /\ kind = "splat" ->
           Node("list_splat_pattern", <<Leaf("*", "*"), Ident(name)>>)
      [] lang = "py" /\ kind = "dict_splat" ->
           Node("dictionary_splat_pattern", <<Leaf("**", "**"), Ident(name)>>)
      [] lang = "js" /\ kind = "default" ->
           Node("assignment_pattern",
                <<Ident(name), Leaf("=", "="), Leaf("number", "1")>>)
      [] lang = "js" /\ kind = "rest" ->
           Node("rest_pattern", <<Leaf("...", "..."), Ident(name)>>)
      [] OTHER ->
           Node("object_pattern",
                <<Leaf("{", "{"),
                  Leaf("shorthand_property_identifier_pattern", name),
                  Leaf("}", "}")>>)

\* ( p1 , p2 , ... )
RECURSIVE CommaList(_)
CommaList(ps) ==
    IF Len(ps) = 0 THEN <<>>
    ELSE IF Len(ps) = 1 THEN ps
    ELSE <<ps[1], Leaf(",", ",")>> \o CommaList(Tail(ps))
ParamList(lang, kinds) ==
    Node(ParameterListType[lang],
         <<Leaf("(", "(")>>
         \o CommaList([k \in 1..Len(kinds) |-> ParamNode(lang, kinds[k], ParamNames[k])])
         \o <<Leaf(")", ")")>>)

ParamsFile(lang, kinds) ==
    IF lang = "js"
    THEN File("a.js", FALSE,
              JsProgram(<<Node("function_declaration",
                               <<Leaf("function", "function"), Ident("f"),
                                 ParamList(lang, kinds), JsBlock(<<>>)>>)>>))
    ELSE File("a.py", FALSE,
              PyModule(<<Node("function_definition",
                              <<Leaf("def", "def"), Ident("f"),
                                ParamList(lang, kinds), Leaf(":", ":"),
                                Node("block", <<Leaf("pass_statement", "pass")>>)>>)>>))

InitParams ==
    /\ \E lang \in {"py", "js"} :
         \E kinds \in SeqsUpTo(ParamKinds(lang), MaxParams) :
            fs = Dir("repo", <<ParamsFile(lang, kinds)>>)
    /\ InitRun

SpecParams == InitParams /\ [][NextApi]_vars

-----------------------------------------------------------------------------
(* Files of the operator cases: one file, a.py or a.js, with one function f *)
(* whose body is one expression statement, a chain of operands and          *)
(* operators "x op y op z" put in parentheses from the left: (x op y) op z. *)
(* In JavaScript and and or are names like any other.                       *)

MaxOperands == 3

Operators == {"and", "or", "plus"}
OperandNames(lang) == IF lang = "js" THEN {"a", "and", "or"} ELSE {"a"}
ChainItems(lang) == [op : Operators, name : OperandNames(lang)]

OperatorToken(lang, op) ==
    CASE op = "plus" -> Leaf("+", "+")
      [] op = "and" -> IF lang = "js" THEN Leaf("&&", "&&") ELSE Leaf("and", "and")
      [] OTHER -> IF lang = "js" THEN Leaf("||", "||") ELSE Leaf("or", "or")

OperatorNodeType(lang, op) ==
    IF lang = "js" THEN "binary_expression"
    ELSE IF op = "plus" THEN "binary_operator" ELSE "boolean_operator"

InParens(n) ==
    IF Len(n.children) = 0 THEN n
    ELSE Node("parenthesized_expression", <<Leaf("(", "("), n, Leaf(")", ")")>>)

\* first, then the items from the left
RECURSIVE Chain(_, _, _)
Chain(lang, left, items) ==
    IF Len(items) = 0 THEN left
    ELSE Chain(lang,
               Node(OperatorNodeType(lang, items[1].op),
                    <<InParens(left), OperatorToken(lang, items[1].op),
                      Ident(items[1].name)>>),
               Tail(items))

OperatorsFile(lang, first, items) ==
    LET stmt == Node("expression_statement", <<Chain(lang, Ident(first), items)>>)
    IN  IF lang = "js" THEN File("a.js", FALSE, JsProgram(<<JsFunc("f", <<stmt>>)>>))
        ELSE File("a.py", FALSE, PyModule(<<PyFunc("f", <<stmt>>)>>))

InitOperators ==
    /\ \E lang \in {"py", "js"} :
         \E first \in OperandNames(lang),
            items \in SeqsUpTo(ChainItems(lang), MaxOperands - 1) :
            fs = Dir("repo", <<OperatorsFile(lang, first, items)>>)
    /\ InitRun

SpecOperators == InitOperators /\ [][Next]_vars

-----------------------------------------------------------------------------
(* find_source_files one directory at a time, on trees with symbolic links. *)
(* A step is one round of "for root, dirs, files in os.walk(repo_path)":    *)
(* os.walk lists the next directory, the loop body prunes dirs and takes    *)
(* the files, and os.walk puts the directories it will walk on its stack.   *)
(* A tree is written in pre-order like the walker's cases, with a           *)
(* directory, a source file and three links: "loop" points to the directory *)
(* that holds it, "root" to the repository, "alias.py" to a file.           *)

MaxLinkEntries == 3

LinkDirNames == {"src"}
LinkNames == {"loop", "root", "alias.py"}
LinkEntryNames == LinkDirNames \cup LinkNames \cup {"a.py"}

LinkMayFollow(items, it) ==
    LET k == Len(items) + 1
    IN  /\ k = 1 => it.depth = 1
        /\ k > 1 => /\ it.depth <= items[k - 1].depth + 1
                    /\ it.depth = items[k - 1].depth + 1
                          => items[k - 1].name \in LinkDirNames
        /\ \A j \in SiblingsAt(items, k, it.depth) : items[j].name # it.name

RECURSIVE LinkListings(_)
LinkListings(n) ==
    IF n = 0 THEN {<<>>}
    ELSE LET prev == LinkListings(n - 1)
         IN  prev \cup
             {Append(q[1], q[2]) :
                 q \in {r \in {p \in prev : Len(p) = n - 1}
                              \X [name : LinkEntryNames, depth : 1..n] :
                           LinkMayFollow(r[1], r[2])}}

\* the entries of items[lo..hi] at depth d in the directory at path
RECURSIVE BuildLinkEntries(_, _, _, _, _)
BuildLinkEntries(items, lo, hi, d, path) ==
    LET tops == {k \in lo..hi : items[k].depth = d}
    IN  IF tops = {} THEN <<>>
        ELSE LET k == CHOOSE x \in tops : \A y \in tops : x <= y
                 rest == tops \ {k}
                 nxt == IF rest = {} THEN hi + 1
                        ELSE CHOOSE x \in rest : \A y \in rest : x <= y
                 name == items[k].name
             IN  <<CASE name \in LinkDirNames ->
                          Dir(name, BuildLinkEntries(items, k + 1, nxt - 1, d + 1,
                                                     Append(path, name)))
                     [] name = "loop" -> Link(name, path, TRUE)
                     [] name = "root" -> Link(name, <<path[1]>>, TRUE)
                     [] name = "alias.py" -> Link(name, <<path[1], "a.py">>, FALSE)
                     [] OTHER -> FileOfName(name)>>
                 \o BuildLinkEntries(items, nxt, hi, d, path)

LinkRepo(items) ==
    Dir("repo", BuildLinkEntries(items, 1, Len(items), 1, <<"repo">>))

\* the directory a path leads to, and its path without links
RECURSIVE Canonical(_, _, _)
Canonical(d, at, rest) ==
    IF Len(rest) = 0 THEN at
    ELSE LET e == d.entries[CHOOSE k \in 1..Len(d.entries) :
                                d.entries[k].name = rest[1]]
         IN  IF e.kind = "link"
             THEN Canonical(Lookup(fs, e.target), e.target, Tail(rest))
             ELSE Canonical(e, Append(at, e.name), Tail(rest))
RealPath(path) == Canonical(fs, <<path[1]>>, Tail(path))

\* no path of the walk is longer than this
WalkCap == MaxLinkEntries + 2

WalkStep ==
    /\ walk.pc = "walking"
    /\ Len(walk.stack[1]) <= WalkCap
    /\ LET root == walk.stack[1]
           d == Lookup(fs, RealPath(root))
           dirs == SelectSeq(DirEntries(d.entries), KeepDir)
           files == SelectSeq(FileEntries(d.entries), KeepFile)
           walked == SelectSeq(dirs, Descends)
           stack == [k \in 1..Len(walked) |-> Append(root, walked[k].name)]
                    \o Tail(walk.stack)
       IN  walk' = [pc |-> IF stack = <<>> THEN "done" ELSE "walking",
                    stack |-> stack,
                    listed |-> Append(walk.listed, RealPath(root)),
                    source_files |->
                        walk.source_files
                        \o [k \in 1..Len(files) |-> Append(root, files[k].name)]]
    /\ UNCHANGED <<analysis, llm, store, github>>

NextLinks == WalkStep

InitLinks ==
    /\ \E items \in LinkListings(MaxLinkEntries) : fs = LinkRepo(items)
    /\ InitPipeline
    /\ parser = "none"
    /\ workers = <<>>
    /\ source = <<>>
    /\ usage = <<>>
    /\ requests = <<>>
    /\ llm = <<>>
    /\ store = <<>>
    /\ github = <<>>
    /\ walk = [pc |-> "walking", stack |-> <<<<"repo">>>>, listed |-> <<>>,
               source_files |-> <<>>]

\* the loop runs on until os.walk has no directory left
SpecLinks == InitLinks /\ [][NextLinks]_vars /\ WF_vars(NextLinks)

-----------------------------------------------------------------------------
(* Files of arrow functions: one file a.js of statements, each a function   *)
(* declaration "function a() {}" or an arrow function "a => b;" with one    *)
(* bare parameter a and the expression b as its body.  The parameter and    *)
(* the body are both identifier children of the arrow_function node.        *)

MaxArrows == 2

ArrowNames == {"f", "g"}
ArrowItems == [kind : {"arrow", "func"}, a : ArrowNames, b : ArrowNames]

\* a => b
JsArrow(a, b) ==
    Node("arrow_function", <<Ident(a), Leaf("=>", "=>"), Ident(b)>>)

ArrowStmt(item) ==
    IF item.kind = "arrow"
    THEN Node("expression_statement",
              <<JsArrow(item.a, item.b), Leaf(";", ";")>>)
    ELSE JsFunc(item.a, <<>>)

RECURSIVE ArrowStmts(_)
ArrowStmts(items) ==
    IF Len(items) = 0 THEN <<>>
    ELSE <<ArrowStmt(items[1])>> \o ArrowStmts(Tail(items))

ArrowsFile(items) == File("a.js", FALSE, JsProgram(ArrowStmts(items)))

InitArrows ==
    /\ \E items \in SeqsUpTo(ArrowItems, MaxArrows) :
          /\ \A k \in 1..Len(items) : items[k].kind = "func" => items[k].b = items[k].a
          /\ fs = Dir("repo", <<ArrowsFile(items)>>)
    /\ InitRun

SpecArrows == InitArrows /\ [][NextApi]_vars

-----------------------------------------------------------------------------
(* GitHub sessions (routes/github.py): token_storage maps the session ids   *)
(* that github_callback issued to access tokens.  list_github_repos and     *)
(* github_status read the token, suspend at "await client.get", and go on   *)
(* with GitHub's answer; github_disconnect has no await.  A handler runs    *)
(* without interruption between two awaits, so each action below is the     *)
(* code from one await to the next.  An exception that no handler catches   *)
(* is answered with 500 by the server.                                      *)

MaxSessions == 1
MaxGithubRequests == 3

SessionIds == <<"s1", "s2", "s3">>
\* the status codes of GitHub's answers: ok, token refused, any other
HttpStatuses == {200, 401, 403}

\* "del d[k]" on a dict that holds k
DictDel(d, k) == [x \in DOMAIN d \ {k} |-> d[x]]

GithubResponse(status, body) == [status |-> status, body |-> body]

\* the requests that wait for GitHub's answer
Suspended(op) ==
    {k \in 1..Len(github.reqs) :
        github.reqs[k].op = op /\ github.reqs[k].pc = "await"}

\* a new request: answered at once with resp, or suspended when resp = <<>>
StartRequest(op, session_id, resp) ==
    github' = [github EXCEPT
                 !.reqs = Append(@, [op |-> op, session_id |-> session_id,
                                     late |-> session_id \in github.removed,
                                     pc |-> IF resp = <<>> THEN "await" ELSE "done",
                                     resp |-> resp])]

\* github_callback: store the token under a fresh session id
GithubCallback ==
    /\ github.issued < MaxSessions
    /\ LET session_id == SessionIds[github.issued + 1]
       IN  github' = [github EXCEPT
                        !.issued = @ + 1,
                        !.token_storage = DictSet(@, session_id, "token")]
    /\ UNCHANGED <<analysis, llm, store, walk>>

\* list_github_repos up to its await
ListReposStart ==
    /\ Len(github.reqs) < MaxGithubRequests
    /\ \E k \in 1..github.issued :
          LET session_id == SessionIds[k]
          IN  IF session_id \notin DOMAIN github.token_storage
              THEN StartRequest("repos", session_id,
                                <<GithubResponse(401, "Invalid or expired session")>>)
              ELSE StartRequest("repos", session_id, <<>>)
    /\ UNCHANGED <<analysis, llm, store, walk>>

\* list_github_repos from GitHub's answer on
ListReposResume ==
    /\ \E k \in Suspended("repos"), status_code \in HttpStatuses :
          LET session_id == github.reqs[k].session_id
              done(ts, resp) ==
                  [github EXCEPT !.token_storage = ts,
                                 !.removed = @ \cup (DOMAIN github.token_storage \ DOMAIN ts),
                                 !.reqs[k].pc = "done",
                                 !.reqs[k].resp = <<resp>>]
          IN  github' =
                IF status_code = 401
                THEN IF session_id \in DOMAIN github.token_storage
                     THEN done(DictDel(github.token_storage, session_id),
                               GithubResponse(401, "GitHub token expired"))
                     ELSE done(github.token_storage, GithubResponse(500, "KeyError"))
                ELSE IF status_code # 200
                THEN done(github.token_storage,
                          GithubResponse(status_code, "Failed to fetch repositories"))
                ELSE done(github.token_storage, GithubResponse(200, "repositories"))
    /\ UNCHANGED <<analysis, llm, store, walk>>

\* github_status up to its await
StatusStart ==
    /\ Len(github.reqs) < MaxGithubRequests
    /\ \E k \in 1..github.issued :
          LET session_id == SessionIds[k]
          IN  IF session_id \notin DOMAIN github.token_storage
              THEN StartRequest("status", session_id,
                                <<GithubResponse(200, "connected: False")>>)
              ELSE StartRequest("status", session_id, <<>>)
    /\ UNCHANGED <<analysis, llm, store, walk>>

\* github_status from GitHub's answer on
StatusResume ==
    /\ \E k \in Suspended("status"), status_code \in HttpStatuses :
          LET session_id == github.reqs[k].session_id
              done(ts, resp) ==
                  [github EXCEPT !.token_storage = ts,
                                 !.removed = @ \cup (DOMAIN github.token_storage \ DOMAIN ts),
                                 !.reqs[k].pc = "done",
                                 !.reqs[k].resp = <<resp>>]
          IN  github' =
                IF status_code = 200
                THEN done(github.token_storage, GithubResponse(200, "connected: True"))
                ELSE IF session_id \in DOMAIN github.token_storage
                THEN done(DictDel(github.token_storage, session_id),
                          GithubResponse(200, "connected: False"))
                ELSE done(github.token_storage, GithubResponse(500, "KeyError"))
    /\ UNCHANGED <<analysis, llm, store, walk>>

\* github_disconnect
GithubDisconnect ==
    /\ Len(github.reqs) < MaxGithubRequests
    /\ \E k \in 1..github.issued :
          LET session_id == SessionIds[k]
              ts == IF session_id \in DOMAIN github.token_storage
                    THEN DictDel(github.token_storage, session_id)
                    ELSE github.token_storage
          IN  github' =
                [github EXCEPT
                   !.token_storage = ts,
                   !.removed = @ \cup (DOMAIN github.token_storage \ DOMAIN ts),
                   !.reqs = Append(@, [op |-> "disconnect", session_id |-> session_id,
                                       late |-> session_id \in github.removed,
                                       pc |-> "done",
                                       resp |-> <<GithubResponse(200, "disconnected")>>])]
    /\ UNCHANGED <<analysis, llm, store, walk>>

NextGithub ==
    \/ GithubCallback
    \/ ListReposStart
    \/ ListReposResume
    \/ StatusStart
    \/ StatusResume
    \/ GithubDisconnect

InitGithub ==
    /\ InitAnalysisIdle
    /\ llm = <<>>
    /\ store = <<>>
    /\ walk = <<>>
    /\ github = [token_storage |-> <<>>, issued |-> 0, removed |-> {}, reqs |-> <<>>]

SpecGithub == InitGithub /\ [][NextGithub]_vars

-----------------------------------------------------------------------------
(* What the claims speak of                                                 *)

Returned == pc = "done"
TheMap == result[1]

\* the names with a FunctionRecord, and the records of a map as pairs
NamesOf(files) == {p.func.name : p \in Range(FunctionPairs(files))}

\* an edge that the call of n in the function functionName of file made
EdgeFor(e, filePath, functionName, n) ==
    /\ e.sourceFile = filePath
    /\ e.source = functionName
    /\ e.target = e.targetFile \o "-" \o n

\* the file of the last FunctionRecord named n, in discovery order
LastOwner(files, n) ==
    files[Max({i \in 1..Len(files) :
                  \E k \in 1..Len(files[i].listOfFunctions) :
                     files[i].listOfFunctions[k].name = n})].filePath

-----------------------------------------------------------------------------
(* Claims on the graph builder                                              *)

\* C5: in every returned architecture map, every CallEdge has
\* sourceFile # targetFile.
C5_EdgesCrossFiles ==
    Returned => \A i \in 1..Len(TheMap.edges) :
                   TheMap.edges[i].sourceFile # TheMap.edges[i].targetFile

C5_Witness == Returned /\ Len(TheMap.edges) >= 2

\* C6: same-file calls never produce edges: if the file of a function F
\* itself defines a function named n, no edge is emitted for F's call of n,
\* whichever other files define n and in whichever order files are found.
C6_SameFileCallsMakeNoEdge ==
    Returned =>
        \A p \in Range(FunctionPairs(TheMap.listOfFiles)) :
            \A n \in Range(p.func.calls) :
                (\E q \in Range(FunctionPairs(TheMap.listOfFiles)) :
                    q.filePath = p.filePath /\ q.func.name = n)
                => ~\E i \in 1..Len(TheMap.edges) :
                      EdgeFor(TheMap.edges[i], p.filePath, p.func.functionName, n)

\* C7: the name index maps each bare name to the file of the last
\* FunctionRecord of that name in discovery order, and every edge is, for a
\* name n its source function calls, the edge to that last owner: targetFile
\* the owner, target the owner's path, "-" and n.
C7_IndexKeepsLastOwner ==
    /\ pc \in {"edges", "return", "done"} =>
          /\ DOMAIN all_functions = NamesOf(analyzed_files)
          /\ \A n \in NamesOf(analyzed_files) :
                all_functions[n] = LastOwner(analyzed_files, n)
    /\ pc \in {"return", "done"} =>
          \A i \in 1..Len(edges) :
              \E p \in Range(FunctionPairs(analyzed_files)) :
                  \E n \in Range(p.func.calls) \cap NamesOf(analyzed_files) :
                      /\ EdgeFor(edges[i], p.filePath, p.func.functionName, n)
                      /\ edges[i].targetFile = LastOwner(analyzed_files, n)
                      /\ edges[i].target = LastOwner(analyzed_files, n) \o "-" \o n

\* a name with a record in two files, called from the first of them
C7_Witness ==
    /\ Returned
    /\ Len(analyzed_files) = 2
    /\ \E n \in NamesOf(<<analyzed_files[1]>>) \cap NamesOf(<<analyzed_files[2]>>) :
          \E i \in 1..Len(edges) :
              /\ edges[i].sourceFile = analyzed_files[1].filePath
              /\ edges[i].target = analyzed_files[2].filePath \o "-" \o n

\* the repository of C8: a.py defines helper(), which calls helper; b.py
\* defines helper()
IsHelperRepo ==
    /\ Len(fs.entries) = 2
    /\ \A k \in 1..2 :
          \/ /\ fs.entries[k].name = "a.py"
             /\ fs.entries[k].tree =
                   PyModule(<<PyFunc("helper", <<PyCallStmt("helper")>>)>>)
          \/ /\ fs.entries[k].name = "b.py"
             /\ fs.entries[k].tree = PyModule(<<PyFunc("helper", <<>>)>>)
    /\ fs.entries[1].name # fs.entries[2].name

\* C8 as stated: for that repository the analysis yields a CallEdge from
\* a.py's helper whose target is in the file the name index recorded last
\* for "helper".
C8_HelperEdgeToLastOwner ==
    (Returned /\ IsHelperRepo) =>
        \E i \in 1..Len(TheMap.edges) :
            /\ TheMap.edges[i].source = "a.py-helper"
            /\ TheMap.edges[i].targetFile = all_functions["helper"]

\* C8 amended: for that repository the analysis yields no CallEdge: the call
\* of helper inside helper is a call of the function's own name, which
\* calls leaves out, so both records have no calls; the name index holds for
\* "helper" the file found last.
C8_HelperRepoHasNoEdge ==
    (Returned /\ IsHelperRepo) =>
        /\ TheMap.edges = <<>>
        /\ TheMap.totalFunctions = 2
        /\ \A p \in Range(FunctionPairs(TheMap.listOfFiles)) :
              p.func.name = "helper" /\ p.func.calls = <<>>
        /\ all_functions["helper"] = fs.entries[2].name

C8_Witness == Returned /\ IsHelperRepo /\ fs.entries[1].name = "a.py"

\* the files with a FunctionRecord named n
OwnersOf(files, n) ==
    {q.filePath : q \in {r \in Range(FunctionPairs(files)) : r.func.name = n}}

DirectCallsOf(ns, n) ==
    {i \in 1..Len(ns) :
        /\ ns[i].type \in {"call", "call_expression"}
        /\ Len(ns[i].children) > 0
        /\ ns[i].children[1] = Leaf("identifier", n)}

\* C9: for every FunctionRecord F and every callee name n at most one
\* CallEdge is emitted for (F, n), however often F calls n: calls holds
\* each name once, and the edges for (functionName, n) are no more than the
\* records that bear that functionName.
C9_OneEdgePerCallee ==
    Returned =>
        \A p \in Range(FunctionPairs(TheMap.listOfFiles)) :
            /\ \A i, j \in 1..Len(p.func.calls) :
                  i # j => p.func.calls[i] # p.func.calls[j]
            /\ \A n \in Range(p.func.calls) :
                  Cardinality({i \in 1..Len(TheMap.edges) :
                      EdgeFor(TheMap.edges[i], p.filePath, p.func.functionName, n)})
                  <= Cardinality({k \in 1..Len(FunctionPairs(TheMap.listOfFiles)) :
                        LET q == FunctionPairs(TheMap.listOfFiles)[k]
                        IN  q.filePath = p.filePath
                            /\ q.func.functionName = p.func.functionName})

\* a function that calls g twice and has its one edge for g
C9_Witness ==
    /\ Returned
    /\ \E k \in 1..Len(fs.entries) :
          /\ fs.entries[k].tree.children =
                <<PyFunc("helper", <<PyCallStmt("g"), PyCallStmt("g")>>)>>
          /\ Cardinality(DirectCallsOf(PreOrder(fs.entries[k].tree), "g")) = 2
          /\ Cardinality({i \in 1..Len(TheMap.edges) :
                EdgeFor(TheMap.edges[i], fs.entries[k].name,
                        fs.entries[k].name \o "-helper", "g")}) = 1


-----------------------------------------------------------------------------
(* Claims on the complexity calculator                                      *)

\* the language and the tree of the source file of a FileRecord
SourceOf(filePath) ==
    LET all == AllFilesBelow(fs, <<fs.name>>)
        k == CHOOSE k \in 1..Len(all) : RelPath(all[k].path, <<fs.name>>) = filePath
    IN  [lang |-> detect_language(all[k].file.name), tree |-> all[k].file.tree]

\* the definition nodes that have a FunctionRecord, in pre-order
NamedDefs(tree, lang) ==
    SelectSeq(PreOrder(tree),
              LAMBDA n : n.type \in function_types[lang] /\ FuncName(n, lang) # "")

\* a decision node: a node of a decision type; a binary_expression only with
\* a logical-AND/OR token among its direct children
DecisionNode(n) ==
    /\ n.type \in COMPLEXITY_NODE_TYPES
    /\ n.type = "binary_expression" =>
          \E k \in 1..Len(n.children) :
              \/ n.children[k].type \in LOGICAL_TOKENS
              \/ get_node_text(n.children[k]) \in LOGICAL_TOKENS

\* the decision nodes among the descendants of a node, as places of PreOrder
DecisionsBelow(node) ==
    LET nodes == PreOrder(node)
    IN  {i \in 2..Len(nodes) : DecisionNode(nodes[i])}

\* the FunctionRecords analyzed so far, each with its definition node
RecordsWithDefs ==
    UNION {LET src == SourceOf(analyzed_files[i].filePath)
               defs == NamedDefs(src.tree, src.lang)
           IN  {[rec |-> analyzed_files[i].listOfFunctions[k],
                 def |-> defs[k], lang |-> src.lang] :
                   k \in 1..Len(analyzed_files[i].listOfFunctions)} :
           i \in 1..Len(analyzed_files)}

\* C1: the complexity of every extracted function is 1 plus the number of
\* decision nodes among all descendants of its definition node, those
\* inside nested function definitions included.
C1_ComplexityCountsAllDescendants ==
    \A r \in RecordsWithDefs :
        r.rec.complexity = 1 + Cardinality(DecisionsBelow(r.def))

\* two ifs and a while, the while inside an if inside an if: complexity 4
C1_Witness ==
    /\ Returned
    /\ \E r \in RecordsWithDefs :
          /\ r.rec.name = "f"
          /\ r.rec.complexity = 4
          /\ LET nodes == PreOrder(r.def)
             IN  /\ Cardinality({i \in 1..Len(nodes) :
                                    nodes[i].type = "if_statement"}) = 2
                 /\ Cardinality({i \in 1..Len(nodes) :
                                    nodes[i].type = "while_statement"}) = 1
                 /\ \E i \in 2..Len(nodes) :
                       /\ nodes[i].type = "if_statement"
                       /\ Cardinality(DecisionsBelow(nodes[i])) = 2

\* C2: every FunctionRecord of a map has complexity >= 1, and one whose
\* subtree holds no decision node has complexity exactly 1.
C2_ComplexityAtLeastOne ==
    Returned =>
        \A i \in 1..Len(TheMap.listOfFiles) :
            LET src == SourceOf(TheMap.listOfFiles[i].filePath)
                defs == NamedDefs(src.tree, src.lang)
                funcs == TheMap.listOfFiles[i].listOfFunctions
            IN  \A k \in 1..Len(funcs) :
                    /\ funcs[k].complexity >= 1
                    /\ (\A n \in Range(PreOrder(defs[k])) :
                           n.type \notin COMPLEXITY_NODE_TYPES)
                       => funcs[k].complexity = 1

\* a function with statements but no decision node: complexity 1
C2_Witness ==
    /\ Returned
    /\ \E r \in RecordsWithDefs :
          /\ r.rec.name = "f"
          /\ r.rec.complexity = 1
          /\ \E n \in Range(Tail(PreOrder(r.def))) :
                n.type \in function_types[r.lang]
          /\ \E n \in Range(PreOrder(r.def)) : n.type = "binary_operator"


-----------------------------------------------------------------------------
(* Claims on the call extractor                                             *)

\* the call nodes among ns whose callee is a member or attribute access
MethodCalls(ns) ==
    {i \in 1..Len(ns) :
        /\ ns[i].type \in {"call", "call_expression"}
        /\ Len(ns[i].children) > 0
        /\ ns[i].children[1].type \in {"attribute", "member_expression"}}

\* the rightmost member identifier of the callee chain of a method call
Rightmost(call) ==
    LET callee == call.children[1]
    IN  callee.children[Len(callee.children)].text

\* C3: the calls of a FunctionRecord never contain the function's own bare
\* name, whatever the call forms of its body: f(), self.f(), this.f().
C3_CallsOmitOwnName ==
    \A r \in RecordsWithDefs : r.rec.name \notin Range(r.rec.calls)

\* C4: for every method or attribute call inside a function, the name in
\* calls is the rightmost member identifier of the callee chain and never
\* the receiver: each rightmost member that is no builtin is in calls, and
\* calls holds nothing but directly called names and rightmost members.
C4_MethodCallRecordsRightmost ==
    \A r \in RecordsWithDefs :
        LET nodes == PreOrder(r.def)
            members == {Rightmost(nodes[i]) : i \in MethodCalls(nodes)}
            direct == {n \in Range(r.rec.calls) : DirectCallsOf(nodes, n) # {}}
        IN  /\ members \ builtins \subseteq Range(r.rec.calls)
            /\ Range(r.rec.calls) \subseteq members \cup direct


-----------------------------------------------------------------------------
(* Claims on the repository walker                                          *)

\* a path through directories below the root that are neither of the
\* ignore-set nor hidden, to a file that is not hidden and has a supported
\* extension
Eligible(path) ==
    /\ \A k \in 2..(Len(path) - 1) :
          path[k] \notin IGNORED_DIRECTORIES /\ SubSeq(path[k], 1, 1) # "."
    /\ SubSeq(path[Len(path)], 1, 1) # "."
    /\ Lower(SplitExt(path[Len(path)])) \in DOMAIN SUPPORTED_EXTENSIONS

\* C10: find_source_files returns exactly the files reached from the root
\* through directories none of which, below the root and at any depth, has
\* a name of the ignore-set or a name starting with ".", whose own name
\* does not start with "." and whose extension is in the table of supported
\* extensions, each once; nothing below an ignored directory is returned.
C10_WalkReturnsEligibleFiles ==
    pc # "start" =>
        /\ Range(file_paths) =
              {f.path : f \in {g \in Range(AllFilesBelow(fs, <<fs.name>>)) :
                                  Eligible(g.path)}}
        /\ \A i, j \in 1..Len(file_paths) :
              i # j => file_paths[i] # file_paths[j]

\* a source two directories below node_modules, and one source at the top
C10_Witness ==
    /\ pc # "start"
    /\ \E f \in Range(AllFilesBelow(fs, <<fs.name>>)) :
          /\ Len(f.path) = 4
          /\ f.path[2] = "node_modules"
          /\ f.path[3] = "src"
          /\ f.path[4] = "a.py"
    /\ file_paths = <<<<"repo", "a.py">>>>

-----------------------------------------------------------------------------
(* Claims on the analysis of one file                                       *)

\* the file a path names has bytes that are no UTF-8
Undecodable(path) ==
    Lookup(fs, path).raw \in {"invalid", "blank+invalid", "text+invalid"}

\* the file a path names is one analyze_file_detailed gives a record for: a
\* supported extension, readable, and more than white space left of its
\* bytes once those that are no UTF-8 are dropped
Analysable(path) ==
    /\ Lower(SplitExt(path[Len(path)])) \in DOMAIN SUPPORTED_EXTENSIONS
    /\ Lookup(fs, path).readable
    /\ Lookup(fs, path).raw \in {"text", "text+invalid"}

\* the direct calls of analyze_file_detailed
AnalyzeCalls == {r \in Range(ret) : r.op = "analyze_file_detailed"}

-----------------------------------------------------------------------------
(* Claims on concurrent per-file analysis                                   *)

\* C12: when analyze_file_detailed or get_function_code run at the same
\* time for files of different languages, their steps interleaved in any
\* order, each file is parsed with the grammar of its own language.
C12_ParsedWithOwnGrammar ==
    \A w \in DOMAIN workers :
        (workers[w].wpc = "returned" /\ workers[w].language # "none")
        => workers[w].parsed_with = detect_language(workers[w].name)

-----------------------------------------------------------------------------
(* Claims on repeated runs                                                  *)

\* the FileRecords another run of the analysis can give for the file of the
\* record at place i of the map: the same file, read and parsed again, in a
\* process with another hash order
RecordsOfRerun(i) ==
    LET path == CHOOSE q \in Range(file_paths) :
                    RelPath(q, <<fs.name>>) = TheMap.listOfFiles[i].filePath
    IN  {analyze_file_detailed(fs, path, <<fs.name>>, ord) :
            ord \in ListsOf(CalledNames(Lookup(fs, path).tree))}

\* C14: two runs of analyze_repo_detailed on the same unchanged directory
\* with the same discovery order give field-for-field identical output: the
\* record a second run gives for a file is the record of the first, the
\* order of each function's calls included.
C14_RunsAgree ==
    Returned =>
        \A i \in 1..Len(TheMap.listOfFiles) :
            RecordsOfRerun(i) = {<<TheMap.listOfFiles[i]>>}

-----------------------------------------------------------------------------
(* Claims on the lines and the code of a FunctionRecord                     *)

\* str.split("\n"): the lines of a text
RECURSIVE SplitLines(_, _)
SplitLines(text, cur) ==
    IF Len(text) = 0 THEN <<cur>>
    ELSE IF text[1] = "LF" THEN <<cur>> \o SplitLines(Tail(text), <<>>)
    ELSE SplitLines(Tail(text), Append(cur, text[1]))

\* "\n".join(lines)
RECURSIVE JoinLines(_)
JoinLines(lines) ==
    IF Len(lines) = 0 THEN <<>>
    ELSE IF Len(lines) = 1 THEN lines[1]
    ELSE lines[1] \o <<"LF">> \o JoinLines(Tail(lines))

\* the lines first..last of a text, 1-indexed and inclusive
LinesOf(text, first, last) ==
    JoinLines(SubSeq(SplitLines(text, <<>>), first, last))

\* the results of extract_function_details on the text
DetailsCalls == {r \in Range(ret) : r.op = "extract_function_details"}

\* C15: for every FunctionRecord, the lines startLine..endLine (1-indexed,
\* inclusive) of the source are its code exactly, wherever the definition
\* starts and ends and whatever the source holds before it.
C15_LinesReproduceCode ==
    \A r \in DetailsCalls :
        LinesOf(source.text, r.value.startLine, r.value.endLine) = r.value.code

-----------------------------------------------------------------------------
(* Claims on get_function_code                                              *)

\* the direct calls of get_function_code
GetCodeCalls == {r \in Range(ret) : r.op = "get_function_code"}

\* the places, in the pre-order of the tree of the file at path, of the
\* definition nodes that declare name
DeclaringDefs(path, name) ==
    LET lang == detect_language(path[Len(path)])
        nodes == PreOrder(Lookup(fs, path).tree)
    IN  {i \in 1..Len(nodes) :
            /\ lang # "none"
            /\ nodes[i].type \in function_types[lang]
            /\ FuncName(nodes[i], lang) = name}

\* C16: get_function_code(file, name) returns the text of the first
\* definition node, in pre-order, whose declared name is name, whatever
\* definitions of that name come later, and None exactly when no definition
\* of the file declares name.
C16_FirstDefinitionByName ==
    \A r \in GetCodeCalls :
        LET ds == DeclaringDefs(r.path, r.function_name)
            nodes == PreOrder(Lookup(fs, r.path).tree)
        IN  /\ r.value = <<>> <=> ds = {}
            /\ ds # {} =>
                  r.value = <<get_node_text(
                                 nodes[CHOOSE i \in ds : \A j \in ds : i <= j])>>

\* f defined inside f: the call for "f" returns the text of the outer one
C16_Witness ==
    /\ fs.entries[1] =
          DefsFile("py", <<[name |-> "f", depth |-> 1], [name |-> "f", depth |-> 2]>>)
    /\ \E r \in GetCodeCalls :
          /\ r.function_name = "f"
          /\ Cardinality(DeclaringDefs(r.path, "f")) = 2
          /\ r.value = <<get_node_text(fs.entries[1].tree.children[1])>>

-----------------------------------------------------------------------------
(* Claims on the records of a file                                          *)

\* a definition node from which a name is recovered: one with an identifier
\* among its children (in C++, among those of a function_declarator child)
HasName(n, lang) ==
    /\ n.type \in function_types[lang]
    /\ IF lang = "cpp"
       THEN \E k \in 1..Len(n.children) :
               /\ n.children[k].type = "function_declarator"
               /\ \E j \in 1..Len(n.children[k].children) :
                     n.children[k].children[j].type = "identifier"
       ELSE \E k \in 1..Len(n.children) : n.children[k].type = "identifier"

\* C17: a definition node for which no name is recovered gives no
\* FunctionRecord: every FunctionRecord of every map has a name that is not
\* empty, and a file has as many FunctionRecords as it has definition nodes
\* with a recoverable name, the nested ones included.
C17_NamelessDefsDropped ==
    \A i \in 1..Len(analyzed_files) :
        LET src == SourceOf(analyzed_files[i].filePath)
            nodes == PreOrder(src.tree)
            funcs == analyzed_files[i].listOfFunctions
        IN  /\ \A k \in 1..Len(funcs) : funcs[k].name # ""
            /\ Len(funcs) =
                  Cardinality({k \in 1..Len(nodes) : HasName(nodes[k], src.lang)})
            /\ analyzed_files[i].totalFunctions = Len(funcs)

\* a function without a name that holds g, then f: three definition nodes,
\* two records
C17_Witness ==
    /\ Returned
    /\ fs.entries[1] =
          DefsFile("js", <<[name |-> "", depth |-> 1], [name |-> "g", depth |-> 2],
                           [name |-> "f", depth |-> 1]>>)
    /\ Cardinality({k \in 1..Len(PreOrder(fs.entries[1].tree)) :
           PreOrder(fs.entries[1].tree)[k].type \in function_types["js"]}) = 3
    /\ [k \in 1..Len(TheMap.listOfFiles[1].listOfFunctions) |->
           TheMap.listOfFiles[1].listOfFunctions[k].name] = <<"g", "f">>

-----------------------------------------------------------------------------
(* Claims on the paths of a map                                             *)

\* the answers of GET /api/analyze/{repo_id}
ProjectCalls == {r \in Range(ret) : r.op = "analyze_project"}

\* a path that starts at the root of the file system
IsAbsolute(filePath) == StartsWith(filePath, "/")

\* C18: every filePath of a produced architecture map is relative to the
\* analyzed project root and never absolute, in the output of
\* analyze_repo_detailed and in the map GET /api/analyze/{repo_id} returns
\* and stores.
C18_PathsRelativeToRoot ==
    /\ Returned =>
          \A i \in 1..Len(TheMap.listOfFiles) :
              /\ ~IsAbsolute(TheMap.listOfFiles[i].filePath)
              /\ \E q \in Range(file_paths) :
                    /\ q[1] = fs.name
                    /\ TheMap.listOfFiles[i].filePath = JoinPath(Tail(q))
    /\ \A r \in ProjectCalls :
          /\ \A i \in 1..Len(r.architecture_map.listOfFiles) :
                ~IsAbsolute(r.architecture_map.listOfFiles[i].filePath)
          /\ \A m \in Range(r.json_file) :
                \A i \in 1..Len(m.listOfFiles) :
                    ~IsAbsolute(m.listOfFiles[i].filePath)

-----------------------------------------------------------------------------
(* Claims on the totals of a map                                            *)

\* C19: analyze_repo_detailed always returns a map, with totalFiles the
\* number of its FileRecords and totalFunctions the number of
\* FunctionRecords over all its files; when no file gives a record the map
\* is empty (no files, no edges, both totals 0) and no error is raised.
C19_TotalsAndEmptyMap ==
    /\ pc # "raised"
    /\ Returned =>
          /\ Len(result) = 1
          /\ TheMap.totalFiles = Len(TheMap.listOfFiles)
          /\ TheMap.totalFunctions = Len(FunctionPairs(TheMap.listOfFiles))
          /\ (\A q \in Range(file_paths) : ~Analysable(q)) =>
                TheMap = [listOfFiles |-> <<>>, edges |-> <<>>,
                          totalFiles |-> 0, totalFunctions |-> 0]

\* two sources discovered, one unreadable and one blank: the empty map
C19_Witness ==
    /\ Returned
    /\ Len(file_paths) = 2
    /\ ~Lookup(fs, file_paths[1]).readable
    /\ Lookup(fs, file_paths[2]).raw = "blank"
    /\ TheMap.listOfFiles = <<>>
    /\ TheMap.totalFiles = 0 /\ TheMap.totalFunctions = 0

-----------------------------------------------------------------------------
(* Claims on the rate limiter                                               *)

\* C20: for every (client, project) pair the number of recorded
\* function-detail requests never exceeds max_function_details, every
\* record being made by a request whose own check returned allowed, also
\* when the checks and records of several requests for the pair interleave.
C20_UsageWithinLimit ==
    \A key \in DOMAIN usage : usage[key] <= max_function_details

-----------------------------------------------------------------------------
(* Claims on the LLM providers                                              *)

\* the provider calls of the current call of generate_with_fallback
Attempted == [k \in 1..Len(llm.attempts) |-> llm.attempts[k].provider]

\* the configured providers in the order Groq, Gemini, Cohere
ConfiguredInOrder ==
    SelectSeq(<<"groq", "gemini", "cohere">>, LAMBDA p : llm.env[p] = "key")

Succeeded == {k \in 1..Len(llm.attempts) : llm.attempts[k].outcome = "ok"}

\* C21: the providers attempted by a call are an initial part of the
\* configured providers in the order Groq, Gemini, Cohere (so each at most
\* once), every attempt but the last has failed, and the provider returned
\* is the one attempt that succeeded.
C21_FallbackInPriorityOrder ==
    llm # <<>> =>
      /\ Len(Attempted) <= Len(ConfiguredInOrder)
      /\ Attempted = SubSeq(ConfiguredInOrder, 1, Len(Attempted))
      /\ \A k \in Succeeded : k = Len(llm.attempts)
      /\ (llm.pc = "returned" /\ Succeeded # {}) =>
            llm.result[1].provider = llm.attempts[Len(llm.attempts)].provider
      /\ (llm.pc = "loop") => Succeeded = {}

C21_Witness ==
    /\ llm # <<>>
    /\ llm.pc = "returned"
    /\ Attempted = <<"groq", "gemini", "cohere">>
    /\ llm.result[1].provider = "cohere"

\* C27: no provider failure leaves generate_with_fallback as an exception;
\* the result has error None exactly when a provider succeeded, otherwise
\* provider "none", an empty text and an error; with no provider configured
\* no provider is called.
C27_FailuresAreReturned ==
    llm # <<>> =>
      /\ llm.pc # "raised"
      /\ llm.pc = "returned" =>
           /\ (llm.result[1].error = "None") <=> (Succeeded # {})
           /\ Succeeded = {} =>
                /\ llm.result[1].provider = "none"
                /\ llm.result[1].text = ""
                /\ llm.result[1].error # "None"
           /\ ConfiguredInOrder = <<>> => llm.attempts = <<>>

C27_Witness ==
    /\ llm # <<>>
    /\ llm.pc = "returned"
    /\ Len(llm.attempts) = 3
    /\ \A k \in 1..3 : llm.attempts[k].outcome # "ok"
    /\ \E k \in 1..3 : llm.attempts[k].outcome = "exception"
    /\ \E k \in 1..3 : llm.attempts[k].outcome = "rate_limit"
    /\ llm.result[1].provider = "none"

-----------------------------------------------------------------------------
(* Claims on the routes                                                     *)

\* the last response, if it is one of GET /api/files/{repo_id}
FilesResponses ==
    {store.resp[k] : k \in {j \in 1..Len(store.resp) : store.resp[j].op = "files"}}

-----------------------------------------------------------------------------
(* Claims on the imports                                                    *)

\* the nodes of a tree that lie in no function and no block, in pre-order
ScopeTypes ==
    {"function_definition", "function_declaration", "function_expression",
     "arrow_function", "method_definition", "block", "statement_block"}
RECURSIVE FileScopeNodes(_)
RECURSIVE FileScopeNodesAll(_)
FileScopeNodesAll(ns) ==
    IF Len(ns) = 0 THEN <<>>
    ELSE FileScopeNodes(ns[1]) \o FileScopeNodesAll(Tail(ns))
FileScopeNodes(n) ==
    <<n>> \o (IF n.type \in ScopeTypes THEN <<>> ELSE FileScopeNodesAll(n.children))

\* the modules that the import statements and require calls at file scope name
FileScopeImports(tree, lang) ==
    LET nodes == FileScopeNodes(tree)
        RECURSIVE Each(_)
        Each(k) == IF k > Len(nodes) THEN <<>>
                   ELSE ImportsAt(lang, nodes[k]) \o Each(k + 1)
    IN  Each(1)

\* C23: the imports of a FileRecord are the modules named by the import
\* statements (and require calls) at file scope; an import nested in a
\* function contributes nothing.
C23_ImportsAtFileScopeOnly ==
    Returned =>
      \A k \in 1..Len(TheMap.listOfFiles) :
         LET rec == TheMap.listOfFiles[k]
             src == SourceOf(rec.filePath)
         IN  rec.imports = FileScopeImports(src.tree, src.lang)

-----------------------------------------------------------------------------
(* Claims on the parameters                                                 *)

\* the parameter nodes of a definition: the children of its parameter list
\* that are no punctuation
DeclaredParameters(def, lang) ==
    LET lists == SelectSeq(ParameterHolders(def, lang),
                           LAMBDA c : c.type = ParameterListType[lang])
    IN  SelectSeq(ChildrenOfAll(lists), LAMBDA p : p.type \notin {"(", ")", ","})

\* C24: every parameter node of a function's parameter list gives exactly
\* one entry of parameters, in source order, so parameters is as long as
\* the list of declared parameters and its k-th entry starts with the name
\* of the k-th one where that is a name or a name with a type or a default.
C24_OneEntryPerParameter ==
    \A rd \in RecordsWithDefs :
        LET declared == DeclaredParameters(rd.def, rd.lang)
        IN  Len(rd.rec.parameters) = Len(declared)

-----------------------------------------------------------------------------
(* Claims on the operators                                                  *)

\* the binary-expression and boolean-operator nodes below n that have a
\* logical-AND/OR token among their direct children, and the other nodes
\* that count
LogicalOperatorNodes(n) ==
    LET nodes == PreOrder(n)
    IN  {k \in 1..Len(nodes) :
           /\ nodes[k].type \in {"binary_expression", "boolean_operator"}
           /\ \E j \in 1..Len(nodes[k].children) :
                 nodes[k].children[j].type \in {"&&", "||", "and", "or"}}
OtherDecisionNodes(n) ==
    LET nodes == PreOrder(n)
    IN  {k \in 1..Len(nodes) :
           /\ nodes[k].type \in COMPLEXITY_NODE_TYPES
           /\ nodes[k].type \notin {"binary_expression", "boolean_operator"}}

\* C25: a binary-expression or boolean-operator node adds 1 to the
\* complexity if a logical-AND/OR token is among its direct children,
\* however many, and 0 if none is: the complexity of a function is 1 plus
\* the number of such nodes with a logical token plus the number of its
\* other decision nodes.
C25_OperatorNodeCountsOnce ==
    \A rd \in RecordsWithDefs :
        rd.rec.complexity =
            1 + Cardinality(LogicalOperatorNodes(rd.def))
              + Cardinality(OtherDecisionNodes(rd.def))

-----------------------------------------------------------------------------
(* Claims on symbolic links                                                 *)

\* C26: find_source_files comes to its end on every finite tree, also with
\* symbolic links that close a cycle of directories; no directory is listed
\* twice, and the files found are those of the walk as a whole.
C26_WalkTerminates ==
    /\ <>(walk.pc = "done")
    /\ [](\A i, j \in 1..Len(walk.listed) :
             walk.listed[i] = walk.listed[j] => i = j)
    /\ [](walk.pc = "done" => walk.source_files = find_source_files(fs))

\* a walk that has ended on a tree in which src holds a link to itself and a
\* link to the repository
C26_Witness ==
    /\ walk # <<>>
    /\ walk.pc = "done"
    /\ walk.listed = <<<<"repo">>, <<"repo", "src">>>>
    /\ \E k \in 1..Len(fs.entries) :
          /\ fs.entries[k].name = "src"
          /\ \E j \in 1..Len(fs.entries[k].entries) :
                fs.entries[k].entries[j].name = "loop"
          /\ \E j \in 1..Len(fs.entries[k].entries) :
                fs.entries[k].entries[j].name = "root"

-----------------------------------------------------------------------------
(* Claims on the records behind the edges                                   *)

\* the FunctionRecords of the FileRecord with that filePath
RecordsOfFile(files, filePath) ==
    UNION {Range(files[i].listOfFunctions) :
             i \in {j \in 1..Len(files) : files[j].filePath = filePath}}

\* C28: in every produced map each CallEdge refers to existing records: its
\* source is the functionName of a FunctionRecord of the file sourceFile
\* whose calls hold the called name, and its target is the functionName of
\* a FunctionRecord of the file targetFile, the one with the called name.
C28_EdgesReferToRecords ==
    Returned =>
      \A i \in 1..Len(TheMap.edges) :
         LET e == TheMap.edges[i]
         IN  \E caller \in RecordsOfFile(TheMap.listOfFiles, e.sourceFile) :
               /\ caller.functionName = e.source
               /\ \E call \in Range(caller.calls) :
                     /\ e.target = e.targetFile \o "-" \o call
                     /\ \E callee \in RecordsOfFile(TheMap.listOfFiles, e.targetFile) :
                           /\ callee.functionName = e.target
                           /\ callee.name = call

\* a map with two edges, one in each direction between its two files
C28_Witness ==
    /\ Returned
    /\ Len(TheMap.listOfFiles) = 2
    /\ \E i, j \in 1..Len(TheMap.edges) :
          /\ TheMap.edges[i].sourceFile = TheMap.listOfFiles[1].filePath
          /\ TheMap.edges[i].targetFile = TheMap.listOfFiles[2].filePath
          /\ TheMap.edges[j].sourceFile = TheMap.listOfFiles[2].filePath
          /\ TheMap.edges[j].targetFile = TheMap.listOfFiles[1].filePath

-----------------------------------------------------------------------------
(* Claims on get_function_code and the records of a file                    *)

\* the FunctionRecords of the analyzed file at path
RecordsAt(path) ==
    LET is == {i \in 1..Len(analyzed_files) :
                  analyzed_files[i].filePath = RelPath(path, <<fs.name>>)}
    IN  IF is = {} THEN <<>>
        ELSE analyzed_files[CHOOSE i \in is : TRUE].listOfFunctions

\* the places of the records of a name
RecordsNamed(recs, name) == {k \in 1..Len(recs) : recs[k].name = name}

\* C29: once a file is analyzed, get_function_code(file, name) finds a
\* function for every name of a FunctionRecord of the file and returns the
\* code of the first record of that name, and it finds a function for no
\* other name.
C29_CodeOfFirstRecord ==
    \A r \in GetCodeCalls :
        Returned =>
            LET recs == RecordsAt(r.path)
                ks == RecordsNamed(recs, r.function_name)
            IN  /\ ks # {} =>
                      r.value = <<recs[CHOOSE k \in ks : \A j \in ks : k <= j].code>>
                /\ r.value # <<>> => ks # {}

-----------------------------------------------------------------------------
(* Claims on the GitHub sessions                                            *)

\* the responses the handlers document
DocumentedResponses ==
    [repos |-> {GithubResponse(401, "Invalid or expired session"),
                GithubResponse(401, "GitHub token expired"),
                GithubResponse(200, "repositories")}
               \cup {GithubResponse(c, "Failed to fetch repositories") :
                        c \in HttpStatuses \ {200, 401}},
     status |-> {GithubResponse(200, "connected: True"),
                 GithubResponse(200, "connected: False")},
     disconnect |-> {GithubResponse(200, "disconnected")}]

\* the responses that reject a session as not connected
Rejections ==
    [repos |-> {GithubResponse(401, "Invalid or expired session")},
     status |-> {GithubResponse(200, "connected: False")},
     disconnect |-> {GithubResponse(200, "disconnected")}]

\* C30: in every interleaving of list_github_repos, github_status and
\* github_disconnect on one session id, every answered request has one of
\* its documented responses (none is an unhandled error of deleting a
\* session another request removed), and a request that starts after the
\* session was removed is rejected as not connected.
C30_SessionRemovalNeverFails ==
    \A k \in 1..Len(github.reqs) :
        LET req == github.reqs[k]
        IN  /\ req.pc = "done" => req.resp[1] \in DocumentedResponses[req.op]
            /\ req.late => req.pc = "done" /\ req.resp[1] \in Rejections[req.op]

=============================================================================
